---- MODULE Spec2Model ----
(***************************************************************************)
(* A model of the arbot market-data pipeline: the opportunity detector,    *)
(* the venue clients' book reconstruction and reconnect logic, and the     *)
(* dynamic manager's configuration handling.                               *)
(*                                                                         *)
(* Numbers that the TypeScript code holds as IEEE doubles are modelled as  *)
(* exact rationals <<numerator, denominator>>; a price or quantity string  *)
(* is modelled as <<value, form>>, where value is what parseFloat returns  *)
(* and form tells two spellings of the same number apart ("100", "100.0"). *)
(* A symbol string is a sequence of one-character strings.                 *)
(***************************************************************************)
EXTENDS Integers, Sequences, FiniteSets, TLC

VARIABLES
    now,                  \* Date.now()
    orderBooks,           \* OpportunityDetector.orderBooks (insertion-ordered Map)
    lastOpportunityCheck, \* OpportunityDetector.lastOpportunityCheck
    config,               \* OpportunityDetector.config
    tradeAmount,          \* OpportunityDetector.tradeAmount
    pending,              \* handleOpportunity calls suspended at an await
    lastEmitted,          \* the last 'opportunity_detected' event
    oppSeq,               \* number of handleOpportunity calls made so far
    emitted,              \* ids of the calls that emitted 'opportunity_detected'
    exchangeTable,        \* the names in the database's exchange table
    sink,                 \* the rows of the arbitrageOpportunity table
    sinkSeq,              \* the last id the table has given to a row
    deleted,              \* the rows deleteMany has removed (history only)
    clients,              \* the venue clients created so far, by creation order
    lastBook,             \* the last 'orderbook' event of a venue client
    mgrPc,                \* how far DynamicMarketDataManager.start() has got
    currentConfig,        \* DynamicMarketDataManager.currentConfig
    exchangeClients,      \* DynamicMarketDataManager.exchangeClients
    tasks,                \* start/updateConfiguration calls waiting on connect()
    received,             \* number of bot:config:update messages received
    lastMessage,          \* the last bot:config:update payload
    mapped,               \* the last call of an ExchangeSymbolMapper method
    intakeSeq,            \* number of handleOrderBookUpdate calls made so far
    intake,               \* handleOrderBookUpdate calls waiting on setEx
    handed,               \* the calls that went on to the detector
    unhandled,            \* promise rejections nothing handles
    botStatus,            \* the value stored under bot:status
    redisOpen,            \* redisClient is connected
    subscriberOpen,       \* subscriberClient is connected
    stops,                \* stop() calls suspended at an await
    stopCalls,            \* number of stop() calls made so far
    stoppedEvents         \* number of 'stopped' events emitted

sinkVars == <<exchangeTable, sink, sinkSeq, deleted>>

detVars == <<now, orderBooks, lastOpportunityCheck, config, tradeAmount,
             pending, lastEmitted, oppSeq, emitted, sinkVars>>

cliVars == <<clients, lastBook>>

stopVars == <<redisOpen, subscriberOpen, stops, stopCalls, stoppedEvents>>

inVars == <<intakeSeq, intake, handed>>

mgrVars == <<mgrPc, currentConfig, exchangeClients, tasks, received,
             lastMessage, mapped, inVars, unhandled, botStatus, stopVars>>

vars == <<detVars, cliVars, mgrVars>>

\* null or undefined
None == [none |-> TRUE]

----------------------------------------------------------------------------
(* Exact rational arithmetic standing for the code's double arithmetic.    *)

Abs(n) == IF n < 0 THEN -n ELSE n

RECURSIVE GCD(_, _)
GCD(a, b) == IF b = 0 THEN a ELSE GCD(b, a % b)

Norm(n, d) ==
    LET g == GCD(Abs(n), d)
    IN  IF g = 0 THEN <<0, 1>> ELSE <<n \div g, d \div g>>

Rat(n) == <<n, 1>>

RMul(a, b) ==
    LET g1 == GCD(Abs(a[1]), b[2])
        g2 == GCD(Abs(b[1]), a[2])
        h1 == IF g1 = 0 THEN 1 ELSE g1
        h2 == IF g2 = 0 THEN 1 ELSE g2
    IN  Norm((a[1] \div h1) * (b[1] \div h2), (a[2] \div h2) * (b[2] \div h1))

\* a / b for b > 0
RDiv(a, b) == RMul(a, <<b[2], b[1]>>)

RAdd(a, b) ==
    LET g == GCD(a[2], b[2])
    IN  Norm(a[1] * (b[2] \div g) + b[1] * (a[2] \div g), (a[2] \div g) * b[2])

RSub(a, b) == RAdd(a, <<-b[1], b[2]>>)

RLt(a, b) == a[1] * b[2] < b[1] * a[2]

RGeq(a, b) == ~RLt(a, b)

----------------------------------------------------------------------------
(* Strings.                                                                *)

\* parseFloat of a price or quantity string
ParseFloat(s) == s[1]

BTCUSDT == <<"B", "T", "C", "U", "S", "D", "T">>
BTC_USD == <<"B", "T", "C", "-", "U", "S", "D">>
BTC_USDT == <<"B", "T", "C", "-", "U", "S", "D", "T">>
BTCUSD == <<"B", "T", "C", "U", "S", "D">>
ETHUSD == <<"E", "T", "H", "U", "S", "D">>

RECURSIVE StripDash(_)
StripDash(s) ==
    IF s = <<>> THEN <<>>
    ELSE IF Head(s) = "-" THEN StripDash(Tail(s))
    ELSE <<Head(s)>> \o StripDash(Tail(s))

RECURSIVE ReplaceUSDT(_)
ReplaceUSDT(s) ==
    IF s = <<>> THEN <<>>
    ELSE IF Len(s) >= 4 /\ SubSeq(s, 1, 4) = <<"U", "S", "D", "T">>
         THEN <<"U", "S", "D">> \o ReplaceUSDT(SubSeq(s, 5, Len(s)))
    ELSE <<Head(s)>> \o ReplaceUSDT(Tail(s))

\* OpportunityDetector.normalizeSymbol
normalizeSymbol(symbol) == ReplaceUSDT(StripDash(symbol))

----------------------------------------------------------------------------
(* Opportunity detector.                                                   *)

\* OpportunityDetector.fees
fees ==
    [binance  |-> [taker |-> <<1, 1000>>,  maker |-> <<0, 1>>],
     coinbase |-> [taker |-> <<6, 1000>>,  maker |-> <<4, 1000>>],
     kraken   |-> [taker |-> <<1, 100>>,   maker |-> <<1, 100>>],
     kucoin   |-> [taker |-> <<8, 10000>>, maker |-> <<8, 10000>>],
     bybit    |-> [taker |-> <<1, 1000>>,  maker |-> <<1, 1000>>],
     gemini   |-> [taker |-> <<4, 1000>>,  maker |-> <<2, 1000>>]]

\* takerOf with the default rate used for every venue
takerOf_defaultOnly(exchange) == <<1, 1000>>

\* this.fees[exchange]?.taker || 0.001
takerOf(exchange) ==
    IF exchange \in DOMAIN fees /\ fees[exchange].taker[1] # 0
    THEN fees[exchange].taker
    ELSE <<1, 1000>>

\* the Map key `${exchange}:${symbol}`
KeyOf(ob) == <<ob.exchange, ob.symbol>>

\* Map.set on the insertion-ordered Map of books
MapSet(m, ob) ==
    IF \E i \in 1..Len(m) : KeyOf(m[i]) = KeyOf(ob)
    THEN [i \in 1..Len(m) |-> IF KeyOf(m[i]) = KeyOf(ob) THEN ob ELSE m[i]]
    ELSE Append(m, ob)

\* isOrderBookFresh with < for <=
isOrderBookFresh_strict(ob, t) == t - ob.timestamp < config.maxSpreadAge

\* OpportunityDetector.isOrderBookFresh, at Date.now() = t
isOrderBookFresh(ob, t) == t - ob.timestamp <= config.maxSpreadAge

RECURSIVE SymbolsFrom(_, _)
SymbolsFrom(m, acc) ==
    IF m = <<>> THEN acc
    ELSE LET s == normalizeSymbol(Head(m).symbol)
         IN  SymbolsFrom(Tail(m),
                 IF \E i \in 1..Len(acc) : acc[i] = s THEN acc ELSE Append(acc, s))

\* OpportunityDetector.getAvailableSymbols
getAvailableSymbols(m) == SymbolsFrom(m, <<>>)

\* a list that takes every book, one venue several times
ExchangeSet_push(m, ob) == Append(m, ob)

\* orderBooksByExchange.set(orderBook.exchange, orderBook)
ExchangeSet(m, ob) ==
    IF \E i \in 1..Len(m) : m[i].exchange = ob.exchange
    THEN [i \in 1..Len(m) |-> IF m[i].exchange = ob.exchange THEN ob ELSE m[i]]
    ELSE Append(m, ob)

RECURSIVE ByExchange(_, _, _, _)
ByExchange(m, symbol, t, acc) ==
    IF m = <<>> THEN acc
    ELSE LET ob == Head(m)
         IN  ByExchange(Tail(m), symbol, t,
                 IF normalizeSymbol(ob.symbol) = symbol /\ isOrderBookFresh(ob, t)
                 THEN ExchangeSet(acc, ob) ELSE acc)

\* OpportunityDetector.calculateOpportunity from the best bid and the best
\* ask on, at Date.now() = t.  buyTs and sellTs record the timestamps of
\* the two books used (history only).
opportunityOf(bestBid, bestAsk, buyOrderBook, sellOrderBook, symbol, t) ==
    LET buyPrice == Rat(ParseFloat(bestAsk.price))
        sellPrice == Rat(ParseFloat(bestBid.price))
        assetQuantity == RDiv(tradeAmount, buyPrice)
        buyValue == tradeAmount
        sellValue == RMul(sellPrice, assetQuantity)
        buyFee == RMul(buyValue, takerOf(buyOrderBook.exchange))
        sellFee == RMul(sellValue, takerOf(sellOrderBook.exchange))
        totalFees == RAdd(buyFee, sellFee)
        grossProfit == RSub(sellValue, buyValue)
        netProfit == RSub(grossProfit, totalFees)
        profitPercent == RMul(RDiv(netProfit, buyValue), Rat(100))
    IN  IF RLt(profitPercent, config.minProfitPercent) THEN None
        ELSE [symbol |-> symbol,
              buyExchange |-> buyOrderBook.exchange,
              sellExchange |-> sellOrderBook.exchange,
              buyPrice |-> buyPrice,
              sellPrice |-> sellPrice,
              spread |-> grossProfit,
              spreadPercent |-> profitPercent,
              estimatedProfit |-> netProfit,
              timestamp |-> t,
              fees |-> [buyFee |-> buyFee, sellFee |-> sellFee, totalFee |-> totalFees],
              buyTs |-> buyOrderBook.timestamp,
              sellTs |-> sellOrderBook.timestamp]

\* calculateOpportunity that takes a missing best ask for an ask at 1
calculateOpportunity_bidOnly(buyOrderBook, sellOrderBook, symbol, t) ==
    IF sellOrderBook.bids = <<>> THEN None
    ELSE opportunityOf(sellOrderBook.bids[1],
                       IF buyOrderBook.asks = <<>>
                       THEN [price |-> <<1, 0>>, quantity |-> <<1, 0>>]
                       ELSE buyOrderBook.asks[1],
                       buyOrderBook, sellOrderBook, symbol, t)

\* OpportunityDetector.calculateOpportunity: null without a best bid in
\* the sell book or a best ask in the buy book
calculateOpportunity(buyOrderBook, sellOrderBook, symbol, t) ==
    IF sellOrderBook.bids = <<>> \/ buyOrderBook.asks = <<>> THEN None
    ELSE opportunityOf(sellOrderBook.bids[1], buyOrderBook.asks[1],
                       buyOrderBook, sellOrderBook, symbol, t)

RECURSIVE PairLoop(_, _, _, _, _)
PairLoop(l, i, j, symbol, t) ==
    IF i > Len(l) THEN <<>>
    ELSE IF j > Len(l) THEN PairLoop(l, i + 1, i + 2, symbol, t)
    ELSE LET opp1 == calculateOpportunity(l[i], l[j], symbol, t)
             opp2 == calculateOpportunity(l[j], l[i], symbol, t)
         IN  (IF opp1 # None THEN <<opp1>> ELSE <<>>)
             \o (IF opp2 # None THEN <<opp2>> ELSE <<>>)
             \o PairLoop(l, i, j + 1, symbol, t)

\* OpportunityDetector.findArbitrageOpportunities
findArbitrageOpportunities(m, symbol, t) ==
    LET orderBooksByExchange == ByExchange(m, symbol, t, <<>>)
    IN  IF Len(orderBooksByExchange) < 2 THEN <<>>
        ELSE PairLoop(orderBooksByExchange, 1, 2, symbol, t)

\* OpportunityDetector.isProfitableOpportunity
isProfitableOpportunity(opportunity) ==
    LET requiredProfit == RAdd(config.minProfitPercent, config.slippageBuffer)
    IN  RGeq(opportunity.spreadPercent, requiredProfit)

RECURSIVE Profitable(_)
Profitable(opps) ==
    IF opps = <<>> THEN <<>>
    ELSE (IF isProfitableOpportunity(Head(opps)) THEN <<Head(opps)>> ELSE <<>>)
         \o Profitable(Tail(opps))

RECURSIVE DetectLoop(_, _, _)
DetectLoop(m, symbols, t) ==
    IF symbols = <<>> THEN <<>>
    ELSE Profitable(findArbitrageOpportunities(m, Head(symbols), t))
         \o DetectLoop(m, Tail(symbols), t)

\* OpportunityDetector.detectOpportunities: the opportunities handed to
\* handleOpportunity, in call order
detectOpportunities(m, t) == DetectLoop(m, getAvailableSymbols(m), t)

----------------------------------------------------------------------------
(* Bounds and inputs of the detector.                                      *)

StartTime == 100000
EndTime == 101001
MaxOpps == 1

\* the 1000 rows cleanupOldOpportunities keeps, scaled down
RetentionCount == 2

\* handleOpportunity calls made on the sink
MaxSinkOpps == 3

Level(p) == [price |-> <<p, 0>>, quantity |-> <<1, 0>>]

DetBook(exchange, symbol, bids, asks, age) ==
    [exchange |-> exchange, symbol |-> symbol, bids |-> bids, asks |-> asks,
     age |-> age]

\* the books fed to the detector, with now - timestamp at the time they
\* reach it; okx has no entry in the fee schedule
DetBooks ==
    {DetBook("binance", BTCUSDT, <<>>, <<Level(10000)>>, 0),
     DetBook("binance", BTCUSDT, <<>>, <<Level(10000)>>, 5000),
     DetBook("binance", BTCUSDT, <<>>, <<Level(10000)>>, 5001),
     DetBook("coinbase", BTC_USD, <<Level(10200)>>, <<>>, 0),
     DetBook("coinbase", BTC_USD, <<Level(10200)>>, <<>>, -2000),
     DetBook("okx", BTC_USDT, <<Level(9960)>>, <<Level(9990)>>, 0)}

MinProfitChoices == {<<1, 10>>, <<2, 1>>}
SlippageChoices == {<<1, 10>>}
TradeAmountChoices == {<<1, 100>>}

----------------------------------------------------------------------------
(* Detector actions.                                                       *)

InitDetector ==
    /\ now = StartTime
    /\ orderBooks = <<>>
    /\ lastOpportunityCheck = 0
    /\ config = [minProfitPercent |-> <<-1, 2>>,
                 slippageBuffer |-> <<0, 1>>,
                 maxSpreadAge |-> 5000]
    /\ tradeAmount = <<1000, 1>>
    /\ pending = {}
    /\ lastEmitted = None
    /\ oppSeq = 0
    /\ emitted = {}
    /\ exchangeTable = {}
    /\ sink = {}
    /\ sinkSeq = 0
    /\ deleted = {}

\* the clock moves on
AdvanceTime ==
    /\ \E d \in {1000, 1001} :
          /\ now + d <= EndTime
          /\ now' = now + d
    /\ UNCHANGED <<orderBooks, lastOpportunityCheck, config, tradeAmount,
                   pending, lastEmitted, oppSeq, emitted, sinkVars>>

\* OpportunityDetector.updateOrderBook, with detectOpportunities and the
\* synchronous part of every handleOpportunity call (up to the await of
\* prisma.arbitrageOpportunity.create)
updateOrderBook(orderBook) ==
    LET m == MapSet(orderBooks, orderBook)
    IN  /\ orderBooks' = m
        /\ IF now - lastOpportunityCheck > 1000
           THEN LET opps == detectOpportunities(m, now)
                IN  /\ oppSeq + Len(opps) <= MaxOpps
                    /\ pending' = pending \cup
                           {[id |-> oppSeq + i, opp |-> opps[i], pc |-> "create",
                             cutoffId |-> 0] :
                               i \in 1..Len(opps)}
                    /\ oppSeq' = oppSeq + Len(opps)
                    /\ lastOpportunityCheck' = now
           ELSE UNCHANGED <<pending, oppSeq, lastOpportunityCheck>>
        /\ UNCHANGED <<now, config, tradeAmount, lastEmitted, emitted,
                       sinkVars>>

DetectorIntake ==
    \E b \in DetBooks :
        updateOrderBook([exchange |-> b.exchange, symbol |-> b.symbol,
                         bids |-> b.bids, asks |-> b.asks,
                         timestamp |-> now - b.age, lastUpdateId |-> 0])

\* Object.assign(this.config, newConfig)
Assign(target, source) ==
    [k \in DOMAIN target |-> IF k \in DOMAIN source THEN source[k] ELSE target[k]]

\* OpportunityDetector.updateConfig
updateConfig(newConfig) ==
    /\ config' = Assign(config, newConfig)
    /\ UNCHANGED <<now, orderBooks, lastOpportunityCheck, tradeAmount,
                   pending, lastEmitted, oppSeq, emitted, sinkVars>>

DetectorUpdateConfig ==
    \/ \E v \in MinProfitChoices : updateConfig([minProfitPercent |-> v])
    \/ \E v \in SlippageChoices : updateConfig([slippageBuffer |-> v])

\* OpportunityDetector.updateTradeAmount
updateTradeAmount(amount) ==
    /\ tradeAmount' = amount
    /\ UNCHANGED <<now, orderBooks, lastOpportunityCheck, config,
                   pending, lastEmitted, oppSeq, emitted, sinkVars>>

DetectorUpdateTradeAmount == \E a \in TradeAmountChoices : updateTradeAmount(a)

\* this.emit('opportunity_detected', opportunity), which ends handleOpportunity
Emit(task) ==
    /\ lastEmitted' = [id |-> task.id, opp |-> task.opp]
    /\ emitted' = emitted \cup {task.id}
    /\ pending' = pending \ {task}

Move(task, pc) == pending' = (pending \ {task}) \cup {[task EXCEPT !.pc = pc]}

\* the row create() connects to an exchange that is in the exchange table
Connects(opp) ==
    /\ opp.buyExchange \in exchangeTable
    /\ opp.sellExchange \in exchangeTable

\* the id the table gives a new row: one more than the last, so that ids
\* grow with insertion as the sink's delete-by-id-range expects
newRowId(last) == last + 1

\* prisma.arbitrageOpportunity.create resolves: the table holds the row
\* under the next id, and saveOpportunityToDatabase goes on to
\* cleanupOldOpportunities
SinkCreateOk ==
    /\ \E task \in pending :
          /\ task.pc = "create"
          /\ Connects(task.opp)
          /\ sink' = sink \cup {[id |-> newRowId(sinkSeq),
                                 timestamp |-> task.opp.timestamp]}
          /\ sinkSeq' = newRowId(sinkSeq)
          /\ Move(task, "count")
    /\ UNCHANGED <<now, orderBooks, lastOpportunityCheck, config, tradeAmount,
                   lastEmitted, oppSeq, emitted, exchangeTable, deleted>>

\* create rejects with a 'Foreign key constraint' error: ensureExchangesExist
SinkCreateForeignKey ==
    /\ \E task \in pending :
          /\ task.pc = "create"
          /\ ~Connects(task.opp)
          /\ Move(task, "ensure")
    /\ UNCHANGED <<now, orderBooks, lastOpportunityCheck, config, tradeAmount,
                   lastEmitted, oppSeq, emitted, sinkVars>>

\* create rejects with another error: it is logged, saveOpportunityToDatabase
\* returns and handleOpportunity emits
SinkCreateError ==
    /\ \E task \in pending : task.pc = "create" /\ Emit(task)
    /\ UNCHANGED <<now, orderBooks, lastOpportunityCheck, config, tradeAmount,
                   oppSeq, sinkVars>>

\* ensureExchangesExist resolves, binance and coinbase are in the exchange
\* table (no create can tell one upserted from none, so the two upserts
\* are one step): saveOpportunityToDatabase is called again
EnsureOk ==
    /\ \E task \in pending : task.pc = "ensure" /\ Move(task, "create")
    /\ exchangeTable' = exchangeTable \cup {"binance", "coinbase"}
    /\ UNCHANGED <<now, orderBooks, lastOpportunityCheck, config, tradeAmount,
                   lastEmitted, oppSeq, emitted, sink, sinkSeq, deleted>>

\* ensureExchangesExist rejects: the error leaves saveOpportunityToDatabase and
\* is caught in handleOpportunity, which emits nothing
EnsureError ==
    /\ \E task \in pending : task.pc = "ensure" /\ pending' = pending \ {task}
    /\ UNCHANGED <<now, orderBooks, lastOpportunityCheck, config, tradeAmount,
                   lastEmitted, oppSeq, emitted, sinkVars>>

\* cleanupOldOpportunities: count() resolves; with no more rows than the
\* retention count cleanup returns, saveOpportunityToDatabase returns and
\* handleOpportunity emits
CleanupCount ==
    /\ \E task \in pending :
          /\ task.pc = "count"
          /\ IF Cardinality(sink) > RetentionCount
             THEN Move(task, "find") /\ UNCHANGED <<lastEmitted, emitted>>
             ELSE Emit(task)
    /\ UNCHANGED <<now, orderBooks, lastOpportunityCheck, config, tradeAmount,
                   oppSeq, sinkVars>>

\* the rows findMany may return with orderBy timestamp desc, skip
\* RetentionCount - 1, take 1: rows with equal timestamps come in an order
\* the database chooses
keepFromRecord(rows) ==
    {r \in rows :
        /\ Cardinality({q \in rows : q.timestamp > r.timestamp})
               <= RetentionCount - 1
        /\ Cardinality({q \in rows : q.timestamp >= r.timestamp})
               >= RetentionCount}

\* findMany resolves: cleanup keeps the id of the row as cutoffId, or
\* returns when there is no such row
CleanupFind ==
    /\ \E task \in pending :
          /\ task.pc = "find"
          /\ IF keepFromRecord(sink) = {}
             THEN Emit(task)
             ELSE /\ \E r \in keepFromRecord(sink) :
                        pending' = (pending \ {task}) \cup
                            {[task EXCEPT !.pc = "delete", !.cutoffId = r.id]}
                  /\ UNCHANGED <<lastEmitted, emitted>>
    /\ UNCHANGED <<now, orderBooks, lastOpportunityCheck, config, tradeAmount,
                   oppSeq, sinkVars>>

\* deleteMany where id < cutoffId resolves: cleanup returns,
\* saveOpportunityToDatabase returns and handleOpportunity emits
CleanupDelete ==
    /\ \E task \in pending :
          /\ task.pc = "delete"
          /\ sink' = {r \in sink : ~(r.id < task.cutoffId)}
          /\ deleted' = deleted \cup {r \in sink : r.id < task.cutoffId}
          /\ Emit(task)
    /\ UNCHANGED <<now, orderBooks, lastOpportunityCheck, config, tradeAmount,
                   oppSeq, exchangeTable, sinkSeq>>

\* count, findMany or deleteMany rejects: cleanupOldOpportunities logs the
\* error and returns, saveOpportunityToDatabase returns and
\* handleOpportunity emits
CleanupError ==
    /\ \E task \in pending :
          /\ task.pc \in {"count", "find", "delete"}
          /\ Emit(task)
    /\ UNCHANGED <<now, orderBooks, lastOpportunityCheck, config, tradeAmount,
                   oppSeq, sinkVars>>

\* the detector in front of an empty database: with at most MaxOpps rows
\* the table never exceeds the retention count, so cleanup ends at count()
NextDet ==
    \/ AdvanceTime /\ UNCHANGED <<cliVars, mgrVars>>
    \/ DetectorIntake /\ UNCHANGED <<cliVars, mgrVars>>
    \/ DetectorUpdateConfig /\ UNCHANGED <<cliVars, mgrVars>>
    \/ DetectorUpdateTradeAmount /\ UNCHANGED <<cliVars, mgrVars>>
    \/ SinkCreateOk /\ UNCHANGED <<cliVars, mgrVars>>
    \/ SinkCreateForeignKey /\ UNCHANGED <<cliVars, mgrVars>>
    \/ SinkCreateError /\ UNCHANGED <<cliVars, mgrVars>>
    \/ EnsureOk /\ UNCHANGED <<cliVars, mgrVars>>
    \/ EnsureError /\ UNCHANGED <<cliVars, mgrVars>>
    \/ CleanupCount /\ UNCHANGED <<cliVars, mgrVars>>
    \/ CleanupError /\ UNCHANGED <<cliVars, mgrVars>>

\* the configuration the manager's constructor sets
DefaultConfig ==
    [exchanges |-> <<"binance", "coinbase", "kraken">>,
     symbols |-> <<BTCUSD, ETHUSD>>,
     minProfitPercent |-> <<1, 10>>,
     tradeAmount |-> <<1, 100>>,
     isActive |-> TRUE]

\* the manager as its constructor leaves it
InitManager ==
    /\ mgrPc = "new"
    /\ currentConfig = DefaultConfig
    /\ exchangeClients = <<>>
    /\ tasks = {}
    /\ received = 0
    /\ lastMessage = None
    /\ mapped = None
    /\ intakeSeq = 0
    /\ intake = {}
    /\ handed = {}
    /\ unhandled = 0
    /\ botStatus = None
    /\ redisOpen = FALSE
    /\ subscriberOpen = FALSE
    /\ stops = {}
    /\ stopCalls = 0
    /\ stoppedEvents = 0

InitDet ==
    /\ InitDetector
    /\ clients = <<>>
    /\ lastBook = None
    /\ InitManager

SpecDetector == InitDet /\ [][NextDet]_vars

----------------------------------------------------------------------------
(* Claims about the detector.                                              *)

\* the handleOpportunity calls started by the step
NewTasks == pending' \ pending

\* the step ran detectOpportunities
Scanned == lastOpportunityCheck' # lastOpportunityCheck

\* C1: whenever opportunity_detected is emitted, the opportunity's profit
\* percent is at least min_profit_percent + slippage_buffer, both read at the
\* moment of emission.
C1_EmittedMeetsThreshold ==
    [][lastEmitted' # lastEmitted =>
          RGeq(lastEmitted'.opp.spreadPercent,
               RAdd(config'.minProfitPercent, config'.slippageBuffer))]_vars

\* the taker rates the specification names
SpecTaker(exchange) == IF exchange = "coinbase" THEN <<6, 1000>> ELSE <<1, 1000>>

\* profit percent of buying at buyBook's best ask and selling at sellBook's
\* best bid, in closed form: 100 * (sell * (1 - ts) - buy * (1 + tb)) / buy
ExpectedProfitPercent(buyBook, sellBook) ==
    LET bp == Rat(buyBook.asks[1].price[1])
        sp == Rat(sellBook.bids[1].price[1])
        tb == SpecTaker(buyBook.exchange)
        ts == SpecTaker(sellBook.exchange)
    IN  RMul(Rat(100),
             RDiv(RSub(RMul(sp, RSub(Rat(1), ts)), RMul(bp, RAdd(Rat(1), tb))), bp))

Qualifies(buyBook, sellBook) ==
    /\ buyBook.asks # <<>>
    /\ sellBook.bids # <<>>
    /\ RGeq(ExpectedProfitPercent(buyBook, sellBook), config.minProfitPercent)
    /\ RGeq(ExpectedProfitPercent(buyBook, sellBook),
            RAdd(config.minProfitPercent, config.slippageBuffer))

WithinAge(ob) == now - ob.timestamp <= 5000

\* C2: every opportunity of a scan at time now uses two books with
\* now - timestamp <= 5000; a book older than that contributes to none, and
\* two qualifying books that are at most 5000 ms old (exactly 5000 ms old, or
\* stamped in the future, included) do produce their opportunity.
C2_FreshBooksOnly ==
    [][Scanned =>
          /\ \A task \in NewTasks :
                /\ task.opp.timestamp = now
                /\ now - task.opp.buyTs <= 5000
                /\ now - task.opp.sellTs <= 5000
          /\ \A i, j \in 1..Len(orderBooks') :
                LET b == orderBooks'[i]
                    a == orderBooks'[j]
                IN  (/\ b.exchange # a.exchange
                     /\ normalizeSymbol(b.symbol) = normalizeSymbol(a.symbol)
                     /\ WithinAge(b) /\ WithinAge(a)
                     /\ Qualifies(b, a))
                    => \E task \in NewTasks :
                          /\ task.opp.buyExchange = b.exchange
                          /\ task.opp.sellExchange = a.exchange
                          /\ task.opp.buyTs = b.timestamp
                          /\ task.opp.sellTs = a.timestamp]_vars

\* an opportunity whose buy book was exactly 5000 ms old and whose sell book
\* was stamped after the scan time
C2_Witness ==
    \E task \in pending :
        /\ task.opp.timestamp - task.opp.buyTs = 5000
        /\ task.opp.sellTs > task.opp.timestamp

\* C3: an opportunity carries buy_fee = amount * taker(buy venue),
\* sell_fee = sell_value * taker(sell venue) with sell_value = sell_price *
\* amount / buy_price, net = sell_value - amount - buy_fee - sell_fee and
\* profit_percent = net / amount * 100; with binance ask 10000, coinbase bid
\* 10200, amount 1000, min_profit 0.1 and slippage 0 the scan yields exactly
\* one opportunity, binance -> coinbase, with net 12.88.
C3_EvaluateFormula ==
    [][Scanned =>
          /\ \A task \in NewTasks :
                LET o == task.opp
                    sellValue == RDiv(RMul(o.sellPrice, tradeAmount), o.buyPrice)
                    buyFee == RMul(tradeAmount, SpecTaker(o.buyExchange))
                    sellFee == RMul(sellValue, SpecTaker(o.sellExchange))
                    net == RSub(RSub(RSub(sellValue, tradeAmount), buyFee), sellFee)
                IN  /\ o.fees.buyFee = buyFee
                    /\ o.fees.sellFee = sellFee
                    /\ o.estimatedProfit = net
                    /\ o.spreadPercent = RDiv(RMul(net, Rat(100)), tradeAmount)
          /\ (/\ Len(orderBooks') = 2
              /\ \E i, j \in 1..2 :
                    /\ orderBooks'[i].exchange = "binance"
                    /\ orderBooks'[i].asks = <<Level(10000)>>
                    /\ orderBooks'[i].bids = <<>>
                    /\ orderBooks'[j].exchange = "coinbase"
                    /\ orderBooks'[j].bids = <<Level(10200)>>
                    /\ WithinAge(orderBooks'[i]) /\ WithinAge(orderBooks'[j])
              /\ tradeAmount = <<1000, 1>>
              /\ config.minProfitPercent = <<1, 10>>
              /\ config.slippageBuffer = <<0, 1>>)
             => \E task \in NewTasks :
                   /\ NewTasks = {task}
                   /\ task.opp.buyExchange = "binance"
                   /\ task.opp.sellExchange = "coinbase"
                   /\ task.opp.estimatedProfit = <<322, 25>>]_vars

\* the scenario's opportunity has been produced under min_profit 0.1,
\* slippage 0 and amount 1000
C3_Witness ==
    /\ config.minProfitPercent = <<1, 10>>
    /\ config.slippageBuffer = <<0, 1>>
    /\ tradeAmount = <<1000, 1>>
    /\ lastOpportunityCheck = now
    /\ \E task \in pending :
          /\ task.pc = "create"
          /\ task.opp.timestamp = now
          /\ task.opp.buyExchange = "binance"
          /\ task.opp.sellExchange = "coinbase"
          /\ task.opp.buyPrice = <<10000, 1>>
          /\ task.opp.sellPrice = <<10200, 1>>
          /\ task.opp.fees.sellFee = <<153, 25>>
          /\ task.opp.spreadPercent = <<161, 125>>

----------------------------------------------------------------------------
(* The opportunity sink: handleOpportunity called with opportunities of    *)
(* several scans, in front of a database that answers every request.       *)

\* an opportunity as calculateOpportunity builds it at time t from an ask
\* of 10000 on the buy venue and a bid of 10200 on coinbase, for an amount
\* of 1000
Opportunity(buy, buyFee, t) ==
    [symbol |-> BTCUSD,
     buyExchange |-> buy,
     sellExchange |-> "coinbase",
     buyPrice |-> <<10000, 1>>,
     sellPrice |-> <<10200, 1>>,
     spread |-> <<20, 1>>,
     spreadPercent |-> <<347 - 25 * buyFee, 250>>,
     estimatedProfit |-> <<347 - 25 * buyFee, 25>>,
     timestamp |-> t,
     fees |-> [buyFee |-> <<buyFee, 1>>, sellFee |-> <<153, 25>>,
               totalFee |-> <<153 + 25 * buyFee, 25>>],
     buyTs |-> t,
     sellTs |-> t]

\* the opportunities handed to handleOpportunity at time t: binance to
\* coinbase, and kraken to coinbase (ensureExchangesExist knows no kraken)
SinkOpportunities(t) == {Opportunity("binance", 1, t), Opportunity("kraken", 10, t)}

\* handleOpportunity up to the await of prisma.arbitrageOpportunity.create
handleOpportunity(opportunity) ==
    /\ oppSeq < MaxSinkOpps
    /\ pending' = pending \cup
           {[id |-> oppSeq + 1, opp |-> opportunity, pc |-> "create",
             cutoffId |-> 0]}
    /\ oppSeq' = oppSeq + 1
    /\ UNCHANGED <<now, orderBooks, lastOpportunityCheck, config, tradeAmount,
                   lastEmitted, emitted, sinkVars>>

HandleOpportunity == \E opp \in SinkOpportunities(now) : handleOpportunity(opp)

\* the sink answers every request, with a foreign-key error when the
\* exchange row is missing
NextSink ==
    \/ AdvanceTime /\ UNCHANGED <<cliVars, mgrVars>>
    \/ HandleOpportunity /\ UNCHANGED <<cliVars, mgrVars>>
    \/ SinkCreateOk /\ UNCHANGED <<cliVars, mgrVars>>
    \/ SinkCreateForeignKey /\ UNCHANGED <<cliVars, mgrVars>>
    \/ EnsureOk /\ UNCHANGED <<cliVars, mgrVars>>
    \/ CleanupCount /\ UNCHANGED <<cliVars, mgrVars>>
    \/ CleanupFind /\ UNCHANGED <<cliVars, mgrVars>>
    \/ CleanupDelete /\ UNCHANGED <<cliVars, mgrVars>>

SpecSink == InitDet /\ [][NextSink]_vars

\* the sink may also fail any request
NextSinkFailing ==
    \/ NextSink
    \/ SinkCreateError /\ UNCHANGED <<cliVars, mgrVars>>
    \/ EnsureError /\ UNCHANGED <<cliVars, mgrVars>>
    \/ CleanupError /\ UNCHANGED <<cliVars, mgrVars>>

\* every request is answered in the end, with a result or with an error
SpecSinkFailing ==
    InitDet /\ [][NextSinkFailing]_vars /\ WF_vars(NextSinkFailing)

\* C12: once every append has gone through its insert and its prune, the
\* sink holds at most the retention count of rows, and no row it has dropped
\* is newer than a row it holds.
C12_SinkHoldsNewest ==
    pending = {} =>
        /\ Cardinality(sink) <= RetentionCount
        /\ \A r \in sink : \A q \in deleted : q.timestamp <= r.timestamp

\* C13: every opportunity handed to handleOpportunity is eventually
\* emitted as opportunity_detected, whatever the sink answers.
C13_EventuallyEmitted ==
    \A id \in 1..MaxSinkOpps : (oppSeq >= id) ~> (id \in emitted)


\* ---------------------------------------------------------------------
\* Venue clients: the per-symbol books they rebuild from venue messages
\* ---------------------------------------------------------------------

Venues == {"binance", "bybit", "coinbase", "gemini", "kraken", "kucoin"}

\* a client object as its constructor leaves it; sockets holds the state
\* of every WebSocket the client has created, ws the index of the one
\* kept in this.ws (0 for null), timers the pending setTimeout callbacks,
\* connecting the connect() calls that have not returned yet; failures
\* and errors record the closes since the last open and the 'error'
\* events emitted by handleReconnect
NewClient(venue, symbols) ==
    [venue |-> venue, symbols |-> symbols, orderBooks |-> <<>>,
     reconnectAttempts |-> 0, timers |-> <<>>, sockets |-> <<>>, ws |-> 0,
     connecting |-> 0, failures |-> 0, errors |-> 0]

Entry(price, quantity) == [price |-> price, quantity |-> quantity]

\* this.orderBooks.get(symbol)
BookGet(c, symbol) ==
    IF \E k \in 1..Len(c.orderBooks) : c.orderBooks[k].symbol = symbol
    THEN c.orderBooks[CHOOSE k \in 1..Len(c.orderBooks) :
                          c.orderBooks[k].symbol = symbol]
    ELSE None

\* this.orderBooks.set(symbol, book)
BookSet(c, book) == [c EXCEPT !.orderBooks = MapSet(@, book)]

\* Array.prototype.sort is stable: an entry goes behind the entries the
\* comparator does not place after it
RECURSIVE InsertByPrice(_, _, _)
InsertByPrice(sorted, e, desc) ==
    IF sorted = <<>> THEN <<e>>
    ELSE LET last == sorted[Len(sorted)]
             stays == IF desc
                      THEN ParseFloat(last.price) >= ParseFloat(e.price)
                      ELSE ParseFloat(last.price) <= ParseFloat(e.price)
         IN  IF stays THEN Append(sorted, e)
             ELSE Append(InsertByPrice(SubSeq(sorted, 1, Len(sorted) - 1),
                                       e, desc), last)

RECURSIVE SortEntries(_, _)
SortEntries(entries, desc) ==
    IF entries = <<>> THEN <<>>
    ELSE InsertByPrice(SortEntries(SubSeq(entries, 1, Len(entries) - 1), desc),
                       entries[Len(entries)], desc)

\* updateOrderBookSide that leaves the entry at the price in place
updateOrderBookSide_keep(existing, price, quantity) ==
    LET result == existing
    IN  IF ParseFloat(quantity) > 0
        THEN Append(result, Entry(price, quantity))
        ELSE result

\* updateOrderBookSide of the clients that keep a side as an array
updateOrderBookSide(existing, price, quantity) ==
    LET result == SelectSeq(existing, LAMBDA entry : entry.price # price)
    IN  IF ParseFloat(quantity) > 0
        THEN Append(result, Entry(price, quantity))
        ELSE result

\* changes.forEach(([price, quantity]) => side = updateOrderBookSide(...))
RECURSIVE ApplyChanges(_, _)
ApplyChanges(side, changes) ==
    IF changes = <<>> THEN side
    ELSE ApplyChanges(updateOrderBookSide(side, changes[1].price,
                                          changes[1].quantity),
                      Tail(changes))

\* Map.set / Map.delete on the price map of the Binance client
PriceMapSet(m, e) ==
    IF \E k \in 1..Len(m) : m[k].price = e.price
    THEN [k \in 1..Len(m) |-> IF m[k].price = e.price THEN e ELSE m[k]]
    ELSE Append(m, e)

PriceMapDelete(m, price) == SelectSeq(m, LAMBDA e : e.price # price)

RECURSIVE PriceMapFill(_, _)
PriceMapFill(m, entries) ==
    IF entries = <<>> THEN m
    ELSE PriceMapFill(PriceMapSet(m, entries[1]), Tail(entries))

RECURSIVE PriceMapApply(_, _)
PriceMapApply(m, updates) ==
    IF updates = <<>> THEN m
    ELSE PriceMapApply(IF ParseFloat(updates[1].quantity) = 0
                       THEN PriceMapDelete(m, updates[1].price)
                       ELSE PriceMapSet(m, updates[1]),
                       Tail(updates))

\* updateOrderBookSide of the Binance client
binanceUpdateOrderBookSide(existing, updates, side) ==
    SortEntries(PriceMapApply(PriceMapFill(<<>>, existing), updates),
                side = "bids")

\* handleOrderBookUpdate of the Kraken and Bybit clients: a snapshot
\* replaces both sides, anything else is applied entry by entry
snapshotOrDelta(c, msg, t) ==
    LET existingOrderBook == BookGet(c, msg.symbol)
        updatedBids == IF msg.type = "snapshot" THEN msg.bids
                       ELSE ApplyChanges(existingOrderBook.bids, msg.bids)
        updatedAsks == IF msg.type = "snapshot" THEN msg.asks
                       ELSE ApplyChanges(existingOrderBook.asks, msg.asks)
    IN  IF existingOrderBook = None THEN None
        ELSE [existingOrderBook EXCEPT
                 !.bids = SortEntries(updatedBids, TRUE),
                 !.asks = SortEntries(updatedAsks, FALSE),
                 !.timestamp = t]

\* handleOrderBookUpdate of the KuCoin and Gemini clients, and
\* handleL2Update of the Coinbase client
deltaOnly(c, msg, t) ==
    LET existingOrderBook == BookGet(c, msg.symbol)
    IN  IF existingOrderBook = None THEN None
        ELSE [existingOrderBook EXCEPT
                 !.bids = SortEntries(ApplyChanges(@, msg.bids), TRUE),
                 !.asks = SortEntries(ApplyChanges(@, msg.asks), FALSE),
                 !.timestamp = t]

\* handleSnapshot of the Coinbase client
handleSnapshot(c, msg, t) ==
    [symbol |-> msg.symbol, exchange |-> "coinbase", bids |-> msg.bids,
     asks |-> msg.asks, timestamp |-> t, lastUpdateId |-> 0]

\* handleTicker of the Coinbase client
handleTicker(c, ticker, t) ==
    LET existingOrderBook == BookGet(c, ticker.symbol)
    IN  IF existingOrderBook = None THEN None
        ELSE [existingOrderBook EXCEPT
                 !.bids = IF Len(@) > 0
                          THEN [@ EXCEPT ![1].price = ticker.best_bid]
                          ELSE @,
                 !.asks = IF Len(@) > 0
                          THEN [@ EXCEPT ![1].price = ticker.best_ask]
                          ELSE @,
                 !.timestamp = t]

\* handleDepthUpdate with the sequence check made strict
handleDepthUpdate_strict(c, update, t) ==
    LET existingOrderBook == BookGet(c, update.symbol)
    IN  IF existingOrderBook = None THEN None
        ELSE IF existingOrderBook.lastUpdateId # 0
                /\ update.U < existingOrderBook.lastUpdateId THEN None
        ELSE [existingOrderBook EXCEPT
                 !.bids = binanceUpdateOrderBookSide(@, update.bids, "bids"),
                 !.asks = binanceUpdateOrderBookSide(@, update.asks, "asks"),
                 !.timestamp = t,
                 !.lastUpdateId = update.u]

\* handleDepthUpdate of the Binance client; t is the event time E the
\* update carries
handleDepthUpdate(c, update, t) ==
    LET existingOrderBook == BookGet(c, update.symbol)
    IN  IF existingOrderBook = None THEN None
        ELSE IF existingOrderBook.lastUpdateId # 0
                /\ update.U <= existingOrderBook.lastUpdateId THEN None
        ELSE [existingOrderBook EXCEPT
                 !.bids = binanceUpdateOrderBookSide(@, update.bids, "bids"),
                 !.asks = binanceUpdateOrderBookSide(@, update.asks, "asks"),
                 !.timestamp = t,
                 !.lastUpdateId = update.u]


\* ---- the messages a venue sends, and the steps that take them ----

MaxUpdateId == 3

MaxLevels == 3

\* price strings: "98", "99", "100", "101" and "100.0"
PriceStrings == {<<98, 0>>, <<99, 0>>, <<100, 0>>, <<101, 0>>, <<100, 1>>}

QuantityStrings == {<<0, 0>>, <<1, 0>>}

\* the changes a message carries for one side: none, one, or two that
\* meet at a price ("100" and "100.0"; "99" removed and set again)
Changes ==
    {<<>>} \cup {<<Entry(p, q)>> : p \in PriceStrings, q \in QuantityStrings}
        \cup {<<Entry(<<100, 0>>, <<1, 0>>), Entry(<<100, 1>>, <<1, 0>>)>>,
              <<Entry(<<99, 0>>, <<0, 0>>), Entry(<<99, 0>>, <<1, 0>>)>>}

Side(prices) == [k \in 1..Len(prices) |-> Entry(<<prices[k], 0>>, <<1, 0>>)]

\* full books as a venue sends them: sorted, one level per price; the
\* second is crossed, the third carries a level of quantity "0"
Snapshots ==
    {[bids |-> Side(<<100, 99>>), asks |-> Side(<<101>>)],
     [bids |-> Side(<<100, 99>>), asks |-> Side(<<98, 101>>)],
     [bids |-> <<Entry(<<100, 0>>, <<1, 0>>), Entry(<<99, 0>>, <<0, 0>>)>>,
      asks |-> Side(<<101>>)]}

SnapshotMessages ==
    {[type |-> "snapshot", symbol |-> BTCUSDT, bids |-> sn.bids,
      asks |-> sn.asks] : sn \in Snapshots}

\* the changes of one message, as <<bids, asks>>
ChangePairs == {x \in Changes \X Changes : x[1] = <<>> \/ x[2] = <<>>}

DeltaMessages ==
    {[type |-> "delta", symbol |-> BTCUSDT, bids |-> x[1], asks |-> x[2]] :
        x \in ChangePairs}

TickerMessages ==
    {[type |-> "ticker", symbol |-> BTCUSDT, best_bid |-> b, best_ask |-> a] :
        b \in {<<98, 0>>, <<100, 0>>}, a \in {<<99, 0>>, <<101, 0>>}}

DepthUpdates ==
    {[symbol |-> BTCUSDT, U |-> r[1], u |-> r[2], bids |-> x[1],
      asks |-> x[2]] :
        r \in {y \in (1..MaxUpdateId) \X (1..MaxUpdateId) : y[1] <= y[2]},
        x \in ChangePairs}

\* the levels initializeOrderBooks keeps of a side of the REST snapshot
\* (50 in the clients), scaled down
Depth == 2

\* Array.prototype.slice(0, n)
slice(entries, n) ==
    SubSeq(entries, 1, IF n < Len(entries) THEN n ELSE Len(entries))

\* the book initializeOrderBooks stores from the REST snapshot of a symbol
PrimedBookFor(venue, symbol, t) ==
    [symbol |-> symbol, exchange |-> venue,
     bids |-> slice(Side(<<100, 99, 98>>), Depth),
     asks |-> slice(Side(<<101>>), Depth), timestamp |-> t,
     lastUpdateId |-> IF venue = "binance" THEN 1 ELSE 0]

PrimedBook(venue, t) == PrimedBookFor(venue, BTCUSDT, t)

\* a client after connect() and the 'open' of its socket
LiveClient(venue, t) ==
    [NewClient(venue, <<BTCUSDT>>) EXCEPT
        !.orderBooks = <<PrimedBook(venue, t)>>,
        !.sockets = <<"open">>, !.ws = 1]

HasOpenSocket(c) == \E k \in 1..Len(c.sockets) : c.sockets[k] = "open"

\* this.orderBooks.set(symbol, book); this.emit('orderbook', book)
StoreAndEmit(i, book) ==
    IF book = None THEN UNCHANGED cliVars
    ELSE /\ Len(book.bids) <= MaxLevels
         /\ Len(book.asks) <= MaxLevels
         /\ clients' = [clients EXCEPT ![i] = BookSet(@, book)]
         /\ lastBook' = book

Receives(i, venue) ==
    /\ i \in 1..Len(clients)
    /\ clients[i].venue = venue
    /\ HasOpenSocket(clients[i])

KrakenHandleOrderBookUpdate ==
    \E i \in 1..Len(clients), msg \in SnapshotMessages \cup DeltaMessages :
        /\ Receives(i, "kraken")
        /\ StoreAndEmit(i, snapshotOrDelta(clients[i], msg, now))

BybitHandleOrderBookUpdate ==
    \E i \in 1..Len(clients), msg \in SnapshotMessages \cup DeltaMessages :
        /\ Receives(i, "bybit")
        /\ StoreAndEmit(i, snapshotOrDelta(clients[i], msg, now))

KuCoinHandleOrderBookUpdate ==
    \E i \in 1..Len(clients), msg \in DeltaMessages :
        /\ Receives(i, "kucoin")
        /\ StoreAndEmit(i, deltaOnly(clients[i], msg, now))

GeminiHandleOrderBookUpdate ==
    \E i \in 1..Len(clients), msg \in DeltaMessages :
        /\ Receives(i, "gemini")
        /\ StoreAndEmit(i, deltaOnly(clients[i], msg, now))

CoinbaseHandleSnapshot ==
    \E i \in 1..Len(clients), msg \in SnapshotMessages :
        /\ Receives(i, "coinbase")
        /\ StoreAndEmit(i, handleSnapshot(clients[i], msg, now))

CoinbaseHandleTicker ==
    \E i \in 1..Len(clients), msg \in TickerMessages :
        /\ Receives(i, "coinbase")
        /\ StoreAndEmit(i, handleTicker(clients[i], msg, now))

CoinbaseHandleL2Update ==
    \E i \in 1..Len(clients), msg \in DeltaMessages :
        /\ Receives(i, "coinbase")
        /\ StoreAndEmit(i, deltaOnly(clients[i], msg, now))

BinanceHandleDepthUpdate ==
    \E i \in 1..Len(clients), update \in DepthUpdates :
        /\ Receives(i, "binance")
        /\ StoreAndEmit(i, handleDepthUpdate(clients[i], update, now))

\* one live client of any of the six venues, fed by its venue
InitBook ==
    /\ InitDetector
    /\ \E venue \in Venues : clients = <<LiveClient(venue, StartTime)>>
    /\ lastBook = None
    /\ InitManager

NextBook ==
    \/ KrakenHandleOrderBookUpdate /\ UNCHANGED <<detVars, mgrVars>>
    \/ BybitHandleOrderBookUpdate /\ UNCHANGED <<detVars, mgrVars>>
    \/ KuCoinHandleOrderBookUpdate /\ UNCHANGED <<detVars, mgrVars>>
    \/ GeminiHandleOrderBookUpdate /\ UNCHANGED <<detVars, mgrVars>>
    \/ CoinbaseHandleSnapshot /\ UNCHANGED <<detVars, mgrVars>>
    \/ CoinbaseHandleTicker /\ UNCHANGED <<detVars, mgrVars>>
    \/ CoinbaseHandleL2Update /\ UNCHANGED <<detVars, mgrVars>>
    \/ BinanceHandleDepthUpdate /\ UNCHANGED <<detVars, mgrVars>>

SpecBook == InitBook /\ [][NextBook]_vars

Descending(side) ==
    \A k \in 1..(Len(side) - 1) :
        ParseFloat(side[k].price) > ParseFloat(side[k + 1].price)

Ascending(side) ==
    \A k \in 1..(Len(side) - 1) :
        ParseFloat(side[k].price) < ParseFloat(side[k + 1].price)

\* C4: every book a venue client emits has its bids strictly descending
\* and its asks strictly ascending by numeric price, so that no two levels
\* of a side share a price.
C4_EmittedBookSorted ==
    lastBook # None => Descending(lastBook.bids) /\ Ascending(lastBook.asks)

\* C5: every book a venue client emits with both sides non-empty has its
\* best bid strictly below its best ask.
C5_EmittedBookNotCrossed ==
    (lastBook # None /\ lastBook.bids # <<>> /\ lastBook.asks # <<>>)
        => ParseFloat(lastBook.bids[1].price)
               < ParseFloat(lastBook.asks[1].price)

\* C18: every book a venue client emits has at most Depth levels on each
\* side: a side is cut to the venue's depth after every incremental update
\* and every snapshot message.
C18_EmittedBookWithinDepth ==
    lastBook # None
        => Len(lastBook.bids) <= Depth /\ Len(lastBook.asks) <= Depth

\* C19: no book a venue client emits contains a level whose quantity is 0:
\* an incoming (price, 0) removes the level at that price and inserts
\* nothing, on the incremental path and on the snapshot path of every
\* venue.
C19_NoZeroQuantityLevel ==
    lastBook # None
        => /\ \A k \in 1..Len(lastBook.bids) :
                 ParseFloat(lastBook.bids[k].quantity) # 0
           /\ \A k \in 1..Len(lastBook.asks) :
                 ParseFloat(lastBook.asks[k].quantity) # 0

\* C17: a Binance depth update whose final id u is at most the stored
\* book's lastUpdateId leaves the stored book (bids, asks, timestamp,
\* lastUpdateId) as it was and emits no orderbook event.  A step of the
\* Binance client that stores or emits a book is therefore the step of an
\* update whose final id, the lastUpdateId of the book it stored, is above
\* the lastUpdateId the book had.
C17_StaleUpdateSkipped ==
    [][\A i \in 1..Len(clients) :
          (/\ clients[i].venue = "binance"
           /\ \/ clients'[i].orderBooks # clients[i].orderBooks
              \/ lastBook' # lastBook)
              => /\ lastBook' = BookGet(clients'[i], BTCUSDT)
                 /\ lastBook'.lastUpdateId
                        > BookGet(clients[i], BTCUSDT).lastUpdateId]_vars

\* the stored book has taken an update, and the venue offers updates
\* whose ids lie at or below its lastUpdateId, which the handler returns
\* from before storing
C17_Witness ==
    \E i \in 1..Len(clients) :
        /\ Receives(i, "binance")
        /\ lastBook = BookGet(clients[i], BTCUSDT)
        /\ lastBook # None
        /\ lastBook.lastUpdateId = MaxUpdateId
        /\ \E update \in DepthUpdates :
              /\ update.u = lastBook.lastUpdateId
              /\ update.bids # <<>>
              /\ handleDepthUpdate(clients[i], update, now) = None

\* the incremental update messages of a venue, the handler that takes
\* them, and the client after the handler has run
IncrementalMessages(venue) ==
    IF venue = "binance" THEN DepthUpdates ELSE DeltaMessages

HandleIncremental(c, msg, t) ==
    IF c.venue = "binance" THEN handleDepthUpdate(c, msg, t)
    ELSE IF c.venue \in {"kraken", "bybit"} THEN snapshotOrDelta(c, msg, t)
    ELSE deltaOnly(c, msg, t)

AfterIncremental(c, msg, t) ==
    LET book == HandleIncremental(c, msg, t)
    IN  IF book = None THEN c ELSE BookSet(c, book)

\* C20: for every venue, applying the same incremental update message
\* twice in succession to a book leaves its bids and asks equal to
\* applying the message once.
C20_ApplyTwiceEqualsOnce ==
    \A i \in 1..Len(clients) :
        \A msg \in IncrementalMessages(clients[i].venue) :
            LET once == AfterIncremental(clients[i], msg, now)
                twice == AfterIncremental(once, msg, now)
            IN  /\ BookGet(twice, msg.symbol).bids
                       = BookGet(once, msg.symbol).bids
                /\ BookGet(twice, msg.symbol).asks
                       = BookGet(once, msg.symbol).asks

\* a client whose handlers have emitted a book, and a message of two
\* changes that alters the bids of that book when applied
C20_Witness ==
    \E i \in 1..Len(clients) :
        /\ Receives(i, "kraken")
        /\ lastBook = BookGet(clients[i], BTCUSDT)
        /\ lastBook # None
        /\ \E msg \in DeltaMessages :
              /\ Len(msg.bids) = 2
              /\ BookGet(AfterIncremental(clients[i], msg, now),
                         BTCUSDT).bids # lastBook.bids

\* ---------------------------------------------------------------------
\* Venue clients: connect, reconnect with backoff, disconnect
\* ---------------------------------------------------------------------

maxReconnectAttempts == 5

MaxFailures == 6

MaxPending == 4

Min(a, b) == IF a < b THEN a ELSE b

RemoveAt(seq, k) == [j \in 1..(Len(seq) - 1) |-> IF j < k THEN seq[j] ELSE seq[j + 1]]

UpperCase == <<"A", "B", "C", "D", "E", "H", "N", "S", "T", "U", "X">>
LowerCase == <<"a", "b", "c", "d", "e", "h", "n", "s", "t", "u", "x">>

\* String.prototype.toUpperCase / toLowerCase over the letters in use
toUpperCase(s) ==
    [k \in 1..Len(s) |->
        IF \E j \in 1..Len(LowerCase) : LowerCase[j] = s[k]
        THEN UpperCase[CHOOSE j \in 1..Len(LowerCase) : LowerCase[j] = s[k]]
        ELSE s[k]]

toLowerCase(s) ==
    [k \in 1..Len(s) |->
        IF \E j \in 1..Len(UpperCase) : UpperCase[j] = s[k]
        THEN LowerCase[CHOOSE j \in 1..Len(UpperCase) : UpperCase[j] = s[k]]
        ELSE s[k]]

btcusd == <<"b", "t", "c", "u", "s", "d">>
ethusd == <<"e", "t", "h", "u", "s", "d">>
ETHUSDT == <<"E", "T", "H", "U", "S", "D", "T">>
ETH_USD == <<"E", "T", "H", "-", "U", "S", "D">>
ETH_USDT == <<"E", "T", "H", "-", "U", "S", "D", "T">>
BTC_by_USD == <<"B", "T", "C", "/", "U", "S", "D">>
ETH_by_USD == <<"E", "T", "H", "/", "U", "S", "D">>
XBT_by_USD == <<"X", "B", "T", "/", "U", "S", "D">>
BNBUSD == <<"B", "N", "B", "U", "S", "D">>
BNBUSDT == <<"B", "N", "B", "U", "S", "D", "T">>
BNB_USDT == <<"B", "N", "B", "-", "U", "S", "D", "T">>

\* the key a client stores the book of a symbol under
BookKey(venue, symbol) ==
    IF venue = "gemini" THEN toUpperCase(symbol) ELSE symbol

\* handleReconnect, the same in the six clients: give up with an 'error'
\* event once the counter has reached the maximum, otherwise count the
\* attempt and arm a timer that calls connect(); this.reconnectTimeout
\* refers to the timer armed last
handleReconnect(c) ==
    IF c.reconnectAttempts >= maxReconnectAttempts
    THEN [c EXCEPT !.errors = @ + 1]
    ELSE LET attempts == c.reconnectAttempts + 1
             delay == Min(1000 * 2^attempts, 30000)
             older == [k \in 1..Len(c.timers) |->
                          [c.timers[k] EXCEPT !.ref = FALSE]]
         IN  [c EXCEPT !.reconnectAttempts = attempts,
                       !.timers = Append(older,
                                         [delay |-> delay, ref |-> TRUE])]

\* one more failure since the last 'open'
Failure(c) == [c EXCEPT !.failures = Min(@ + 1, MaxFailures)]

\* initializeOrderBooks: the symbols in primed get a fresh book, the
\* others keep what the map held
RECURSIVE initializeOrderBooks(_, _, _, _)
initializeOrderBooks(c, symbols, primed, t) ==
    IF symbols = <<>> THEN c
    ELSE initializeOrderBooks(
             IF Head(symbols) \in primed
             THEN BookSet(c, PrimedBookFor(c.venue,
                                           BookKey(c.venue, Head(symbols)), t))
             ELSE c,
             Tail(symbols), primed, t)

\* connectToSymbols of the Gemini client: one socket per symbol, the
\* first kept in this.ws when that is null
RECURSIVE connectToSymbols(_, _)
connectToSymbols(c, symbols) ==
    IF symbols = <<>> THEN c
    ELSE connectToSymbols(
             [c EXCEPT !.sockets = Append(@, "connecting"),
                       !.ws = IF @ = 0 THEN Len(c.sockets) + 1 ELSE @],
             Tail(symbols))

\* the body of connect() after the snapshots have arrived
connect(c, primed, t) ==
    LET booked == initializeOrderBooks(c, c.symbols, primed, t)
    IN  IF c.venue = "gemini"
        THEN [connectToSymbols(booked, c.symbols) EXCEPT
                 !.reconnectAttempts = 0]
        ELSE [booked EXCEPT !.sockets = Append(@, "connecting"),
                            !.ws = Len(c.sockets) + 1]

\* disconnect, the same in the six clients
disconnect(c) ==
    [c EXCEPT !.timers = SelectSeq(@, LAMBDA tm : ~tm.ref),
              !.sockets = IF c.ws > 0
                          THEN [@ EXCEPT ![c.ws] = "closing"]
                          ELSE @,
              !.ws = 0]

Pending(c) == Len(c.sockets) + Len(c.timers) + c.connecting

SymbolsOf(c) == {c.symbols[k] : k \in 1..Len(c.symbols)}

\* the owner calls connect() on a client it has just constructed
CallConnect ==
    \E i \in 1..Len(clients) :
        /\ clients[i] = NewClient(clients[i].venue, clients[i].symbols)
        /\ clients' = [clients EXCEPT ![i].connecting = 1]
        /\ UNCHANGED lastBook

\* connect() gets its snapshots and creates its socket(s)
ConnectReturns ==
    \E i \in 1..Len(clients) :
        \E primed \in SUBSET SymbolsOf(clients[i]) :
            LET c == connect(clients[i], primed, now)
            IN  /\ clients[i].connecting > 0
                /\ Pending(c) - 1 <= MaxPending
                /\ clients' = [clients EXCEPT
                                  ![i] = [c EXCEPT !.connecting = @ - 1]]
                /\ UNCHANGED lastBook

\* getWebSocketInfo throws: connect() of the KuCoin client ends in its
\* catch block
KuCoinConnectFails ==
    \E i \in 1..Len(clients) :
        /\ clients[i].venue = "kucoin"
        /\ clients[i].connecting > 0
        /\ clients' = [clients EXCEPT
               ![i] = [handleReconnect(Failure(@)) EXCEPT
                          !.connecting = @ - 1]]
        /\ UNCHANGED lastBook

\* 'open' of a socket
SocketOpen ==
    \E i \in 1..Len(clients) :
        \E k \in 1..Len(clients[i].sockets) :
            /\ clients[i].sockets[k] = "connecting"
            /\ clients' = [clients EXCEPT
                   ![i].sockets[k] = "open",
                   ![i].failures = 0,
                   ![i].reconnectAttempts =
                       IF clients[i].venue = "gemini" THEN @ ELSE 0]
            /\ UNCHANGED lastBook

\* the socket is gone: 'close' calls handleReconnect
Closed(c, k) ==
    handleReconnect(Failure(
        [c EXCEPT !.sockets = RemoveAt(@, k),
                  !.ws = IF @ = k THEN -1 ELSE IF @ > k THEN @ - 1 ELSE @]))

SocketClose ==
    \E i \in 1..Len(clients) :
        \E k \in 1..Len(clients[i].sockets) :
            /\ clients' = [clients EXCEPT ![i] = Closed(@, k)]
            /\ UNCHANGED lastBook

\* a connection attempt that fails: the socket closes before it opens
SocketFails ==
    \E i \in 1..Len(clients) :
        \E k \in 1..Len(clients[i].sockets) :
            /\ clients[i].sockets[k] = "connecting"
            /\ clients' = [clients EXCEPT ![i] = Closed(@, k)]
            /\ UNCHANGED lastBook

\* a reconnect timer fires and calls connect()
TimerFires ==
    \E i \in 1..Len(clients) :
        \E j \in 1..Len(clients[i].timers) :
            /\ clients' = [clients EXCEPT
                   ![i].timers = RemoveAt(@, j),
                   ![i].connecting = @ + 1]
            /\ UNCHANGED lastBook

\* the owner calls disconnect()
Disconnect ==
    \E i \in 1..Len(clients) :
        /\ clients[i] # NewClient(clients[i].venue, clients[i].symbols)
        /\ clients' = [clients EXCEPT ![i] = disconnect(@)]
        /\ UNCHANGED lastBook

\* the symbols a client is built with when its constructor gets none
DefaultSymbols(venue) ==
    CASE venue = "binance" -> <<BTCUSDT, ETHUSDT>>
      [] venue = "bybit" -> <<BTCUSDT, ETHUSDT>>
      [] venue = "coinbase" -> <<BTC_USD, ETH_USD>>
      [] venue = "kraken" -> <<BTC_by_USD, ETH_by_USD>>
      [] venue = "kucoin" -> <<BTC_USDT, ETH_USDT>>
      [] venue = "gemini" -> <<btcusd, ethusd>>

\* one client of any of the six venues, as constructed
InitClient ==
    /\ InitDetector
    /\ \E venue \in Venues :
           clients = <<NewClient(venue, DefaultSymbols(venue))>>
    /\ lastBook = None
    /\ InitManager

NextClient ==
    \/ CallConnect /\ UNCHANGED <<detVars, mgrVars>>
    \/ ConnectReturns /\ UNCHANGED <<detVars, mgrVars>>
    \/ KuCoinConnectFails /\ UNCHANGED <<detVars, mgrVars>>
    \/ SocketOpen /\ UNCHANGED <<detVars, mgrVars>>
    \/ SocketClose /\ UNCHANGED <<detVars, mgrVars>>
    \/ TimerFires /\ UNCHANGED <<detVars, mgrVars>>
    \/ Disconnect /\ UNCHANGED <<detVars, mgrVars>>

SpecClient == InitClient /\ [][NextClient]_vars

\* the same client in an environment where no connection attempt ever
\* succeeds and nobody disconnects it; every step that is possible is
\* eventually taken
NextFailing ==
    \/ CallConnect /\ UNCHANGED <<detVars, mgrVars>>
    \/ ConnectReturns /\ UNCHANGED <<detVars, mgrVars>>
    \/ KuCoinConnectFails /\ UNCHANGED <<detVars, mgrVars>>
    \/ SocketFails /\ UNCHANGED <<detVars, mgrVars>>
    \/ TimerFires /\ UNCHANGED <<detVars, mgrVars>>

\* one client of any of the six venues, built for one symbol
InitFailing ==
    /\ InitDetector
    /\ \E venue \in Venues :
           clients = <<NewClient(venue, <<Head(DefaultSymbols(venue))>>)>>
    /\ lastBook = None
    /\ InitManager

SpecFailing == InitFailing /\ [][NextFailing]_vars /\ WF_vars(NextFailing)


\* the step armed one more timer, with the given delay
Armed(c, d, delay) ==
    /\ Len(d.timers) = Len(c.timers) + 1
    /\ d.timers[Len(d.timers)].delay = delay

\* C6: counting the failures of a client since it was built or last saw a
\* socket open, the 1st to 4th failure arm a retry after 2, 4, 8 and 16
\* seconds, and the 5th arms none and emits the terminal error.
C6_BackoffSchedule ==
    [][\A i \in 1..Len(clients) :
          LET c == clients[i]
              d == clients'[i]
          IN  (Len(clients') = Len(clients) /\ d.failures = c.failures + 1)
                  => /\ d.failures \in 1..4
                         => /\ Armed(c, d, 1000 * 2^d.failures)
                            /\ d.errors = c.errors
                     /\ d.failures = 5
                         => /\ d.timers = c.timers
                            /\ d.errors = c.errors + 1]_vars

Stopped(c) == c.errors > 0 /\ c.timers = <<>> /\ c.connecting = 0

\* C7: when every connection attempt fails, a client of any venue ends up
\* with the terminal error emitted, no reconnect timer armed and no
\* connect() running, and stays so.
C7_EventuallyStopped ==
    <>[](\A i \in 1..Len(clients) : Stopped(clients[i]))


\* ---------------------------------------------------------------------
\* ExchangeSymbolMapper: canonical symbol to the symbol of a venue
\* ---------------------------------------------------------------------

EndsWith(s, suffix) ==
    /\ Len(s) >= Len(suffix)
    /\ SubSeq(s, Len(s) - Len(suffix) + 1, Len(s)) = suffix

USD == <<"U", "S", "D">>
USDT == <<"U", "S", "D", "T">>
BTC == <<"B", "T", "C">>
XBT == <<"X", "B", "T">>

\* initializeExchangeFormats: separator, case and special mappings
exchangeFormats ==
    [binance |-> [separator |-> <<>>, lower |-> FALSE, special |-> FALSE],
     coinbase |-> [separator |-> <<"-">>, lower |-> FALSE, special |-> FALSE],
     kraken |-> [separator |-> <<"/">>, lower |-> FALSE, special |-> TRUE],
     bybit |-> [separator |-> <<>>, lower |-> FALSE, special |-> FALSE],
     kucoin |-> [separator |-> <<"-">>, lower |-> FALSE, special |-> FALSE],
     gemini |-> [separator |-> <<>>, lower |-> TRUE, special |-> FALSE]]

\* the quote assets parseNormalizedSymbol tries, in its order
quoteAssets ==
    <<USDT, <<"U", "S", "D", "C">>, USD, <<"E", "U", "R">>, BTC,
      <<"E", "T", "H">>, <<"B", "N", "B">>>>

parseNormalizedSymbol(symbol) ==
    LET fits == {k \in 1..Len(quoteAssets) :
                    /\ EndsWith(symbol, quoteAssets[k])
                    /\ Len(symbol) > Len(quoteAssets[k])}
    IN  IF fits = {} THEN None
        ELSE LET k == CHOOSE j \in fits : \A l \in fits : j <= l
             IN  [base |-> SubSeq(symbol, 1,
                                  Len(symbol) - Len(quoteAssets[k])),
                  quote |-> quoteAssets[k]]

\* krakenSpecialMappings
specialMappings(base) ==
    IF base = BTC THEN XBT ELSE IF base = XBT THEN BTC ELSE base

toExchangeSymbol(normalizedSymbol, exchangeId) ==
    LET parsed == parseNormalizedSymbol(normalizedSymbol)
    IN  IF exchangeId \notin DOMAIN exchangeFormats \/ parsed = None
        THEN None
        ELSE LET format == exchangeFormats[exchangeId]
                 base == IF format.special THEN specialMappings(parsed.base)
                         ELSE parsed.base
                 quote == IF parsed.quote = USD
                             /\ exchangeId \in {"binance", "kucoin", "bybit"}
                          THEN USDT ELSE parsed.quote
             IN  IF format.lower
                 THEN toLowerCase(base) \o format.separator
                          \o toLowerCase(quote)
                 ELSE toUpperCase(base) \o format.separator
                          \o toUpperCase(quote)

\* the examples of initializeExchangeFormats for the base assets in use
examples ==
    [binance |-> <<BTCUSDT, ETHUSDT, BNBUSDT>>,
     coinbase |-> <<BTC_USD, ETH_USD>>,
     kraken |-> <<XBT_by_USD, ETH_by_USD>>,
     bybit |-> <<BTCUSDT, ETHUSDT>>,
     kucoin |-> <<BTC_USDT, ETH_USDT, BNB_USDT>>,
     gemini |-> <<btcusd, ethusd>>]

\* the quote assets parseExchangeSymbol tries, in its order
exchangeQuoteAssets ==
    <<USDT, <<"U", "S", "D", "C">>, USD, <<"E", "U", "R">>, BTC,
      <<"E", "T", "H">>>>

\* parseExchangeSymbol: split at the separator, or cut a known quote
\* asset off the upper-cased symbol
parseExchangeSymbol(symbol, format) ==
    IF format.separator # <<>>
    THEN LET at == {k \in 1..Len(symbol) : symbol[k] = format.separator[1]}
         IN  IF Cardinality(at) = 1
             THEN LET k == CHOOSE j \in at : TRUE
                  IN  IF k > 1 /\ k < Len(symbol)
                      THEN [base |-> SubSeq(symbol, 1, k - 1),
                            quote |-> SubSeq(symbol, k + 1, Len(symbol))]
                      ELSE None
             ELSE None
    ELSE LET upperSymbol == toUpperCase(symbol)
             fits == {k \in 1..Len(exchangeQuoteAssets) :
                         /\ EndsWith(upperSymbol, exchangeQuoteAssets[k])
                         /\ Len(upperSymbol) > Len(exchangeQuoteAssets[k])}
         IN  IF fits = {} THEN None
             ELSE LET k == CHOOSE j \in fits : \A l \in fits : j <= l
                  IN  [base |-> SubSeq(upperSymbol, 1,
                                   Len(upperSymbol)
                                       - Len(exchangeQuoteAssets[k])),
                       quote |-> exchangeQuoteAssets[k]]

\* the inner loop of findCommonSymbols: an example of the venue whose
\* base asset is the one asked for
foundSymbol(exchangeId, base) ==
    LET format == exchangeFormats[exchangeId]
        list == examples[exchangeId]
        hits == {k \in 1..Len(list) :
                    LET parsed == parseExchangeSymbol(list[k], format)
                    IN  /\ parsed # None
                        /\ toUpperCase(IF format.special
                                       THEN specialMappings(parsed.base)
                                       ELSE parsed.base)
                               = toUpperCase(base)}
    IN  IF hits = {} THEN None
        ELSE list[CHOOSE k \in hits : \A l \in hits : k <= l]

\* symbol.replace(/USD[T]?$/, '') of discoverCompatibleSymbols
baseCurrency(symbol) ==
    IF EndsWith(symbol, USDT) THEN SubSeq(symbol, 1, Len(symbol) - 4)
    ELSE IF EndsWith(symbol, USD) THEN SubSeq(symbol, 1, Len(symbol) - 3)
    ELSE symbol

\* the Map findCommonSymbols fills for one base asset: the venues asked
\* for that have a format and an example of the base, with that example
exchangeSymbols(exchangeIds, base) ==
    [v \in {exchangeIds[e] : e \in
                {e \in 1..Len(exchangeIds) :
                    /\ exchangeIds[e] \in DOMAIN exchangeFormats
                    /\ foundSymbol(exchangeIds[e], base) # None}}
        |-> foundSymbol(v, base)]

\* findCommonSymbols with a base asset kept when any venue has it
findCommonSymbols_any(exchangeIds, baseAssets) ==
    LET kept == {baseAssets[b] : b \in
                    {b \in 1..Len(baseAssets) :
                        DOMAIN exchangeSymbols(exchangeIds, baseAssets[b])
                            # {}}}
    IN  [normalizedSymbol \in {base \o USD : base \in kept} |->
            exchangeSymbols(exchangeIds,
                SubSeq(normalizedSymbol, 1, Len(normalizedSymbol) - 3))]

\* findCommonSymbols: the Map it returns, from `${base}USD` to the Map of
\* the base; a base asset is kept when the size of its Map is the length
\* of exchangeIds
findCommonSymbols(exchangeIds, baseAssets) ==
    LET kept == {baseAssets[b] : b \in
                    {b \in 1..Len(baseAssets) :
                        Cardinality(DOMAIN exchangeSymbols(exchangeIds,
                                                           baseAssets[b]))
                            = Len(exchangeIds)}}
    IN  [normalizedSymbol \in {base \o USD : base \in kept} |->
            exchangeSymbols(exchangeIds,
                SubSeq(normalizedSymbol, 1, Len(normalizedSymbol) - 3))]

\* normalizeQuoteAsset: the dollar stablecoins become USD
normalizeQuoteAsset(quote) ==
    LET normalized == toUpperCase(quote)
    IN  IF normalized \in {USDT, <<"U", "S", "D", "C">>,
                           <<"B", "U", "S", "D">>, <<"D", "A", "I">>}
        THEN USD ELSE normalized

\* fromExchangeSymbol that keeps the quote asset as the venue spells it
fromExchangeSymbol_raw(exchangeSymbol, exchangeId) ==
    IF exchangeId \notin DOMAIN exchangeFormats THEN None
    ELSE LET format == exchangeFormats[exchangeId]
             parsed == parseExchangeSymbol(exchangeSymbol, format)
         IN  IF parsed = None THEN None
             ELSE LET base == IF format.special
                              THEN specialMappings(parsed.base)
                              ELSE parsed.base
                  IN  toUpperCase(base) \o toUpperCase(parsed.quote)

\* fromExchangeSymbol: symbol of a venue to canonical symbol
fromExchangeSymbol(exchangeSymbol, exchangeId) ==
    IF exchangeId \notin DOMAIN exchangeFormats THEN None
    ELSE LET format == exchangeFormats[exchangeId]
             parsed == parseExchangeSymbol(exchangeSymbol, format)
         IN  IF parsed = None THEN None
             ELSE LET base == IF format.special
                              THEN specialMappings(parsed.base)
                              ELSE parsed.base
                      quote == normalizeQuoteAsset(parsed.quote)
                  IN  toUpperCase(base) \o toUpperCase(quote)

\* ---------------------------------------------------------------------
\* DynamicMarketDataManager: start and configuration updates
\* ---------------------------------------------------------------------

MaxMessages == 2

MaxClients == 2

\* a property of an object, undefined when the object lacks it
Get(obj, field) == IF field \in DOMAIN obj THEN obj[field] ELSE None

\* a payload JSON.parse throws on
InvalidJson == [invalid |-> TRUE]

\* Array.prototype.sort without a comparator orders by UTF-16 code units
VenueRank ==
    [binance |-> 1, bybit |-> 2, coinbase |-> 3, gemini |-> 4, kraken |-> 5,
     kucoin |-> 6]

Alphabet ==
    <<"-", "/", "A", "B", "C", "D", "E", "H", "N", "S", "T", "U", "X",
      "a", "b", "c", "d", "e", "h", "n", "s", "t", "u", "x">>

Code(ch) == CHOOSE k \in 1..Len(Alphabet) : Alphabet[k] = ch

RECURSIVE StringLeq(_, _)
StringLeq(a, b) ==
    IF a = <<>> THEN TRUE
    ELSE IF b = <<>> THEN FALSE
    ELSE IF Head(a) = Head(b) THEN StringLeq(Tail(a), Tail(b))
    ELSE Code(Head(a)) < Code(Head(b))

RECURSIVE InsertVenue(_, _)
InsertVenue(sorted, v) ==
    IF sorted = <<>> THEN <<v>>
    ELSE LET last == sorted[Len(sorted)]
         IN  IF VenueRank[last] <= VenueRank[v] THEN Append(sorted, v)
             ELSE Append(InsertVenue(SubSeq(sorted, 1, Len(sorted) - 1), v),
                         last)

RECURSIVE SortVenues(_)
SortVenues(seq) ==
    IF seq = <<>> THEN <<>>
    ELSE InsertVenue(SortVenues(SubSeq(seq, 1, Len(seq) - 1)), seq[Len(seq)])

RECURSIVE InsertSymbol(_, _)
InsertSymbol(sorted, v) ==
    IF sorted = <<>> THEN <<v>>
    ELSE LET last == sorted[Len(sorted)]
         IN  IF StringLeq(last, v) THEN Append(sorted, v)
             ELSE Append(InsertSymbol(SubSeq(sorted, 1, Len(sorted) - 1), v),
                         last)

RECURSIVE SortSymbols(_)
SortSymbols(seq) ==
    IF seq = <<>> THEN <<>>
    ELSE InsertSymbol(SortSymbols(SubSeq(seq, 1, Len(seq) - 1)), seq[Len(seq)])

\* getSymbolsForExchange
RECURSIVE getSymbolsForExchange(_, _)
getSymbolsForExchange(symbols, exchangeId) ==
    IF symbols = <<>> THEN <<>>
    ELSE LET exchangeSymbol == toExchangeSymbol(Head(symbols), exchangeId)
             rest == getSymbolsForExchange(Tail(symbols), exchangeId)
         IN  IF exchangeSymbol = None THEN rest
             ELSE <<exchangeSymbol>> \o rest

\* createExchangeClient
createExchangeClient(cfg, exchangeId) ==
    IF exchangeId \in Venues
    THEN NewClient(exchangeId, getSymbolsForExchange(cfg.symbols, exchangeId))
    ELSE None

\* Map.set on exchangeClients
ClientMapSet(m, exchangeId, i) ==
    IF \E k \in 1..Len(m) : m[k].venue = exchangeId
    THEN [k \in 1..Len(m) |->
             IF m[k].venue = exchangeId THEN [m[k] EXCEPT !.client = i]
             ELSE m[k]]
    ELSE Append(m, [venue |-> exchangeId, client |-> i])

Registered(m) == {m[k].client : k \in 1..Len(m)}

\* startExchangeConnections up to its await: st holds the clients, the
\* map and the clients whose connect() it has called
RECURSIVE startExchangeConnections(_, _, _)
startExchangeConnections(cfg, exchanges, st) ==
    IF exchanges = <<>> THEN st
    ELSE LET client == createExchangeClient(cfg, Head(exchanges))
             i == Len(st.clients) + 1
         IN  startExchangeConnections(cfg, Tail(exchanges),
                 IF ~cfg.isActive \/ client = None THEN st
                 ELSE [clients |-> Append(st.clients,
                                      [client EXCEPT !.connecting = 1]),
                       map |-> ClientMapSet(st.map, Head(exchanges), i),
                       called |-> st.called \cup {i}])

\* restartExchangeConnections up to its await
restartExchangeConnections(cfg, cls, m) ==
    startExchangeConnections(cfg, cfg.exchanges,
        [clients |-> [i \in 1..Len(cls) |->
                         IF i \in Registered(m) THEN disconnect(cls[i])
                         ELSE cls[i]],
         map |-> <<>>,
         called |-> {}])

\* the first connect() of a client has not returned yet
InitialConnectPending(c) ==
    c.connecting > 0 /\ c.failures = 0 /\ c.sockets = <<>> /\ c.timers = <<>>

\* what the checks of updateConfiguration leave in currentConfig: the
\* arrays it got to sort are sorted in place
Sorted(oldConfig, newConfig) ==
    IF "exchanges" \notin DOMAIN oldConfig
       \/ "exchanges" \notin DOMAIN newConfig THEN newConfig
    ELSE IF "symbols" \notin DOMAIN oldConfig
            \/ "symbols" \notin DOMAIN newConfig
    THEN [newConfig EXCEPT !.exchanges = SortVenues(@)]
    ELSE [newConfig EXCEPT !.exchanges = SortVenues(@),
                           !.symbols = SortSymbols(@)]

\* the checks throw a TypeError on a config without one of the arrays
Throws(oldConfig, newConfig) ==
    \/ "exchanges" \notin DOMAIN oldConfig
    \/ "exchanges" \notin DOMAIN newConfig
    \/ "symbols" \notin DOMAIN oldConfig
    \/ "symbols" \notin DOMAIN newConfig

\* the comparison made on the arrays as they come
Changed_inOrder(oldConfig, newConfig) ==
    \/ oldConfig.exchanges # newConfig.exchanges
    \/ oldConfig.symbols # newConfig.symbols

\* exchangesChanged || symbolsChanged
Changed(oldConfig, newConfig) ==
    \/ SortVenues(oldConfig.exchanges) # SortVenues(newConfig.exchanges)
    \/ SortSymbols(oldConfig.symbols) # SortSymbols(newConfig.symbols)


\* the configuration found under bot:config, and the payloads published
\* on bot:config:update
StoredConfig ==
    [exchanges |-> <<"binance">>, symbols |-> <<BTCUSD>>,
     minProfitPercent |-> <<1, 10>>, tradeAmount |-> <<1, 100>>,
     isActive |-> TRUE]

\* a configuration that is switched off
InactiveConfig ==
    [exchanges |-> <<"kraken">>, symbols |-> <<BTCUSD>>,
     minProfitPercent |-> <<1, 10>>, tradeAmount |-> <<1, 100>>,
     isActive |-> FALSE]

Payloads ==
    {StoredConfig,
     [exchanges |-> <<"kraken">>, symbols |-> <<BTCUSD>>,
      minProfitPercent |-> <<1, 1>>, tradeAmount |-> <<1, 10>>,
      isActive |-> TRUE],
     [exchanges |-> <<"coinbase">>, symbols |-> <<BNBUSD>>,
      minProfitPercent |-> <<1, 1>>, tradeAmount |-> <<1, 10>>,
      isActive |-> TRUE],
     [exchanges |-> <<>>, symbols |-> <<BTCUSD>>,
      minProfitPercent |-> <<2, 1>>, tradeAmount |-> <<1, 10>>,
      isActive |-> TRUE],
     [symbols |-> <<BTCUSD>>, minProfitPercent |-> <<2, 1>>,
      tradeAmount |-> <<1, 10>>, isActive |-> TRUE],
     [exchanges |-> <<"binance">>, minProfitPercent |-> <<2, 1>>,
      tradeAmount |-> <<1, 10>>, isActive |-> TRUE],
     [StoredConfig EXCEPT !.symbols = <<ETHUSD, BTCUSD>>],
     [StoredConfig EXCEPT !.symbols = <<BTCUSD, ETHUSD>>],
     InactiveConfig,
     InvalidJson}

\* what the manager pushes into the detector with a configuration
PushToDetector(cfg) ==
    /\ config' = Assign(config,
                        [minProfitPercent |-> Get(cfg, "minProfitPercent")])
    /\ tradeAmount' = Get(cfg, "tradeAmount")
    /\ UNCHANGED <<now, orderBooks, lastOpportunityCheck, pending,
                   lastEmitted, oppSeq, emitted, sinkVars>>

\* start() up to the subscription to bot:config:update
StartSubscribe ==
    /\ mgrPc = "new"
    /\ mgrPc' = "subscribed"
    /\ redisOpen' = TRUE
    /\ subscriberOpen' = TRUE
    /\ UNCHANGED <<detVars, cliVars, currentConfig, exchangeClients, tasks,
                   received, lastMessage, mapped, inVars, unhandled, botStatus, stops,
                   stopCalls, stoppedEvents>>

\* loadConfiguration, with what redisClient.get finds under bot:config
loadConfiguration(storedConfigs) ==
    /\ mgrPc = "subscribed"
    /\ mgrPc' = "loaded"
    /\ \E stored \in storedConfigs :
          LET cfg == IF stored = None THEN currentConfig ELSE stored
          IN  /\ currentConfig' = cfg
              /\ PushToDetector(cfg)
    /\ UNCHANGED <<cliVars, exchangeClients, tasks, received, lastMessage, mapped, inVars,
                   unhandled, botStatus, stopVars>>

\* bot:config either absent or set
StartLoad == loadConfiguration({None, StoredConfig})

\* startExchangeConnections gets through its loop: the configuration has
\* its venues array, and its symbols array if a client is to be created
Startable(cfg) ==
    /\ "exchanges" \in DOMAIN cfg
    /\ \/ "symbols" \in DOMAIN cfg
       \/ cfg.exchanges = <<>>
       \/ ~cfg.isActive

\* start() calls startExchangeConnections and waits for the clients; at
\* most limit clients are created
startConnections(limit) ==
    /\ mgrPc = "loaded"
    /\ Startable(currentConfig)
    /\ LET st == startExchangeConnections(currentConfig,
                     currentConfig.exchanges,
                     [clients |-> clients, map |-> exchangeClients,
                      called |-> {}])
       IN  /\ Len(st.clients) <= limit
           /\ clients' = st.clients
           /\ exchangeClients' = st.map
           /\ tasks' = tasks \cup
                  {[kind |-> "start", id |-> 0, waits |-> st.called]}
    /\ mgrPc' = "connecting"
    /\ UNCHANGED <<detVars, lastBook, currentConfig, received, lastMessage, mapped, inVars,
                   unhandled, botStatus, stopVars>>

StartConnect == startConnections(MaxClients)

\* startExchangeConnections throws a TypeError: start() emits 'error'
\* and rejects
StartFails ==
    /\ mgrPc = "loaded"
    /\ ~Startable(currentConfig)
    /\ mgrPc' = "failed"
    /\ UNCHANGED <<detVars, cliVars, currentConfig, exchangeClients, tasks,
                   received, lastMessage, mapped, inVars, unhandled, botStatus, stopVars>>

\* the status updateBotStatus builds; uptime is Date.now() while running
botStatusOf(isRunning, cfg, m, t) ==
    [isRunning |-> isRunning /\ Get(cfg, "isActive") = TRUE,
     connectedExchanges |-> [k \in 1..Len(m) |-> m[k].venue],
     uptime |-> IF isRunning THEN t ELSE 0]

\* updateBotStatus: redisClient.set stores the status; on a closed client
\* it rejects, which updateBotStatus catches and logs
updateBotStatus(isRunning, cfg, m) ==
    botStatus' = IF redisOpen THEN botStatusOf(isRunning, cfg, m, now)
                 ELSE botStatus

\* every connect() a start or updateConfiguration call waits for has
\* returned: the call goes on to the end, start() setting isRunning, and
\* writes the status
TaskDone ==
    /\ \E task \in tasks :
          /\ \A i \in task.waits : ~InitialConnectPending(clients[i])
          /\ tasks' = tasks \ {task}
          /\ mgrPc' = IF task.kind = "start" THEN "running" ELSE mgrPc
          /\ updateBotStatus(mgrPc' = "running", currentConfig,
                             exchangeClients)
    /\ UNCHANGED <<detVars, cliVars, currentConfig, exchangeClients,
                   received, lastMessage, mapped, inVars, unhandled, stopVars>>

\* the subscription callback with updateConfiguration up to its await,
\* for the payloads published; at most messages payloads are published
\* and at most limit clients created
onConfigUpdate(payloads, messages, limit) ==
    /\ mgrPc \in {"subscribed", "loaded", "connecting", "running"}
    /\ subscriberOpen
    /\ received < messages
    /\ UNCHANGED <<mapped, inVars>>
    /\ \E message \in payloads :
          /\ received' = received + 1
          /\ lastMessage' = message
          /\ IF message = InvalidJson
             THEN UNCHANGED <<detVars, cliVars, mgrPc, currentConfig,
                              exchangeClients, tasks, unhandled, botStatus,
                              stopVars>>
             ELSE LET oldConfig == currentConfig
                      newConfig == Sorted(oldConfig, message)
                  IN  /\ currentConfig' = newConfig
                      /\ PushToDetector(message)
                      /\ UNCHANGED <<lastBook, mgrPc, botStatus, stopVars>>
                      /\ IF Throws(oldConfig, message)
                         THEN /\ unhandled' = unhandled + 1
                              /\ UNCHANGED <<clients, exchangeClients, tasks>>
                         ELSE IF Changed(oldConfig, message)
                         THEN LET st == restartExchangeConnections(
                                            newConfig, clients,
                                            exchangeClients)
                              IN  /\ Len(st.clients) <= limit
                                  /\ clients' = st.clients
                                  /\ exchangeClients' = st.map
                                  /\ tasks' = tasks \cup
                                         {[kind |-> "update",
                                           id |-> received + 1,
                                           waits |-> st.called]}
                                  /\ UNCHANGED unhandled
                         ELSE /\ tasks' = tasks \cup
                                     {[kind |-> "update",
                                       id |-> received + 1, waits |-> {}]}
                              /\ UNCHANGED <<clients, exchangeClients,
                                             unhandled>>

ConfigMessage == onConfigUpdate(Payloads, MaxMessages, MaxClients)

\* the 'close' event of a socket that close() was called on
SocketClosed ==
    \E i \in 1..Len(clients) :
        \E k \in 1..Len(clients[i].sockets) :
            /\ clients[i].sockets[k] = "closing"
            /\ clients' = [clients EXCEPT ![i] = Closed(@, k)]
            /\ UNCHANGED lastBook

\* the step makes a client emit 'connected': the Gemini client at the end
\* of connect(), the others when their socket opens
EmitsConnected(gemini) ==
    \E i \in 1..Len(clients) :
        clients'[i] # clients[i] /\ (clients[i].venue = "gemini") = gemini

\* the manager's 'connected' handler calls updateBotStatus
OnConnected(gemini) ==
    /\ IF EmitsConnected(gemini)
       THEN updateBotStatus(mgrPc = "running", currentConfig, exchangeClients)
       ELSE UNCHANGED botStatus
    /\ UNCHANGED <<detVars, mgrPc, currentConfig, exchangeClients, tasks,
                   received, lastMessage, mapped, inVars, unhandled, stopVars>>

ManagerConnectReturns == ConnectReturns /\ OnConnected(TRUE)

ManagerSocketOpen == SocketOpen /\ OnConnected(FALSE)

\* the manager with its clients; the venues answer every request and
\* drop no connection
NextManager ==
    \/ StartSubscribe
    \/ StartLoad
    \/ StartConnect
    \/ StartFails
    \/ TaskDone
    \/ ConfigMessage
    \/ ManagerConnectReturns
    \/ ManagerSocketOpen
    \/ SocketClosed /\ UNCHANGED <<detVars, mgrVars>>
    \/ TimerFires /\ UNCHANGED <<detVars, mgrVars>>

InitMgr ==
    /\ InitDetector
    /\ clients = <<>>
    /\ lastBook = None
    /\ InitManager

SpecManager == InitMgr /\ [][NextManager]_vars


\* the client is connecting, connected or about to reconnect
Live(c) ==
    \/ c.connecting > 0
    \/ c.timers # <<>>
    \/ \E k \in 1..Len(c.sockets) : c.sockets[k] \in {"connecting", "open"}

\* the last bot:config:update message is a full configuration, it is the
\* one in force, every start and updateConfiguration call has finished and
\* none has thrown
LastUpdateProcessed ==
    /\ mgrPc = "running"
    /\ tasks = {}
    /\ unhandled = 0
    /\ received > 0
    /\ "exchanges" \in DOMAIN lastMessage
    /\ "symbols" \in DOMAIN lastMessage
    /\ "exchanges" \in DOMAIN currentConfig
    /\ "symbols" \in DOMAIN currentConfig
    /\ currentConfig = [lastMessage EXCEPT !.exchanges = SortVenues(@),
                                           !.symbols = SortSymbols(@)]

\* C8: once a configuration update has been fully processed, the live
\* clients are exactly the ones the manager holds, one for each venue of
\* the new configuration; no client of an earlier configuration is live.
C8_OnlyCurrentClientsLive ==
    LastUpdateProcessed =>
        /\ \A i \in 1..Len(clients) :
               Live(clients[i]) <=> i \in Registered(exchangeClients)
        /\ {exchangeClients[k].venue : k \in 1..Len(exchangeClients)}
               = {currentConfig.exchanges[k] :
                     k \in 1..Len(currentConfig.exchanges)}

\* C9: a bot:config:update message with an empty venue list changes
\* neither the manager's configuration, nor its clients, nor the
\* detector's tunables.
C9_EmptyVenueListRejected ==
    [][(/\ received' = received + 1
        /\ "exchanges" \in DOMAIN lastMessage'
        /\ lastMessage'.exchanges = <<>>)
           => /\ currentConfig' = currentConfig
              /\ exchangeClients' = exchangeClients
              /\ clients' = clients
              /\ config' = config
              /\ tradeAmount' = tradeAmount]_vars

\* the payload is no BotConfig: invalid JSON, or no exchanges or symbols
Unparseable(message) ==
    \/ message = InvalidJson
    \/ "exchanges" \notin DOMAIN message
    \/ "symbols" \notin DOMAIN message

\* C10: a bot:config:update payload that is no BotConfig changes neither
\* the manager's configuration nor its clients, and no error escapes.
C10_BadPayloadIgnored ==
    [][(received' = received + 1 /\ Unparseable(lastMessage'))
           => /\ currentConfig' = currentConfig
              /\ exchangeClients' = exchangeClients
              /\ clients' = clients
              /\ unhandled' = unhandled]_vars

\* the configured symbols the registry resolves on every enabled venue
CompatibleSymbols(cfg) ==
    {cfg.symbols[k] : k \in
        {k \in 1..Len(cfg.symbols) :
            baseCurrency(cfg.symbols[k]) \o USD \in
                DOMAIN findCommonSymbols(cfg.exchanges,
                    [j \in 1..Len(cfg.symbols) |->
                        baseCurrency(cfg.symbols[j])])}}

\* C11: every client the manager creates, at start or on a
\* reconfiguration, is subscribed only to venue symbols of configured
\* symbols that the registry resolves on every enabled venue.
C11_OnlyCommonSymbolsSubscribed ==
    [][\A i \in (Len(clients) + 1)..Len(clients') :
          \A symbol \in SymbolsOf(clients'[i]) :
              \E s \in CompatibleSymbols(currentConfig') :
                  toExchangeSymbol(s, clients'[i].venue) = symbol]_vars

\* ---------------------------------------------------------------------
\* DynamicMarketDataManager: status and stop
\* ---------------------------------------------------------------------

MaxStops == 2

\* the status timer start() sets every 10 seconds; stop() does not clear it
StatusTick ==
    /\ mgrPc \in {"running", "stopped"}
    /\ updateBotStatus(mgrPc = "running", currentConfig, exchangeClients)
    /\ UNCHANGED <<detVars, cliVars, mgrPc, currentConfig, exchangeClients,
                   tasks, received, lastMessage, mapped, inVars, unhandled, stopVars>>

\* disconnect() of a store client: on a client that is closed already the
\* library either rejects with its client-closed error or resolves
StoreDisconnect(open, call, pc) ==
    \/ /\ open
       /\ stops' = (stops \ {call}) \cup {[id |-> call.id, pc |-> pc]}
       /\ UNCHANGED unhandled
    \/ /\ ~open
       /\ \/ /\ stops' = stops \ {call}
             /\ unhandled' = unhandled + 1
          \/ /\ stops' = (stops \ {call}) \cup {[id |-> call.id, pc |-> pc]}
             /\ UNCHANGED unhandled

\* stop() up to the await of redisClient.disconnect(); it returns at once
\* unless isRunning is set
StopCall ==
    /\ stopCalls < MaxStops
    /\ stopCalls' = stopCalls + 1
    /\ IF mgrPc # "running"
       THEN UNCHANGED <<clients, exchangeClients, redisOpen, stops, unhandled>>
       ELSE /\ clients' = [i \in 1..Len(clients) |->
                              IF i \in Registered(exchangeClients)
                              THEN disconnect(clients[i]) ELSE clients[i]]
            /\ exchangeClients' = <<>>
            /\ StoreDisconnect(redisOpen,
                               [id |-> stopCalls + 1, pc |-> "call"], "redis")
            /\ redisOpen' = FALSE
    /\ UNCHANGED <<detVars, lastBook, mgrPc, currentConfig, tasks, received,
                   lastMessage, mapped, inVars, botStatus, subscriberOpen, stoppedEvents>>

\* redisClient.disconnect() has resolved: stop() goes on to the await of
\* subscriberClient.disconnect()
StopSubscriber ==
    /\ \E call \in stops :
          /\ call.pc = "redis"
          /\ StoreDisconnect(subscriberOpen, call, "subscriber")
    /\ subscriberOpen' = FALSE
    /\ UNCHANGED <<detVars, cliVars, mgrPc, currentConfig, exchangeClients,
                   tasks, received, lastMessage, mapped, inVars, botStatus, redisOpen,
                   stopCalls, stoppedEvents>>

\* subscriberClient.disconnect() has resolved: stop() clears isRunning and
\* goes on to the await of updateBotStatus()
StopStatus ==
    /\ \E call \in stops :
          /\ call.pc = "subscriber"
          /\ stops' = (stops \ {call}) \cup {[call EXCEPT !.pc = "status"]}
    /\ mgrPc' = "stopped"
    /\ updateBotStatus(FALSE, currentConfig, exchangeClients)
    /\ UNCHANGED <<detVars, cliVars, currentConfig, exchangeClients, tasks,
                   received, lastMessage, mapped, inVars, unhandled, redisOpen,
                   subscriberOpen, stopCalls, stoppedEvents>>

\* updateBotStatus() has returned: stop() emits 'stopped'
StopEmit ==
    /\ \E call \in stops :
          /\ call.pc = "status"
          /\ stops' = stops \ {call}
    /\ stoppedEvents' = stoppedEvents + 1
    /\ UNCHANGED <<detVars, cliVars, mgrPc, currentConfig, exchangeClients,
                   tasks, received, lastMessage, mapped, inVars, unhandled, botStatus,
                   redisOpen, subscriberOpen, stopCalls>>

\* the manager from start() to stop(), with no configuration message and
\* with venues whose connections may fail
NextShutdown ==
    \/ StartSubscribe
    \/ StartLoad
    \/ StartConnect
    \/ TaskDone
    \/ ManagerConnectReturns
    \/ ManagerSocketOpen
    \/ SocketFails /\ UNCHANGED <<detVars, mgrVars>>
    \/ SocketClosed /\ UNCHANGED <<detVars, mgrVars>>
    \/ TimerFires /\ UNCHANGED <<detVars, mgrVars>>
    \/ AdvanceTime /\ UNCHANGED <<cliVars, mgrVars>>
    \/ StatusTick
    \/ StopCall
    \/ StopSubscriber
    \/ StopStatus
    \/ StopEmit

SpecShutdown == InitMgr /\ [][NextShutdown]_vars

\* stop() has been called on the running manager and has returned
StopReturned == mgrPc = "stopped" /\ stops = {}

\* C14: once stop() has returned on a running manager, the status stored
\* under bot:status reports isRunning = false.
C14_FinalStatusNotRunning ==
    StopReturned => (botStatus # None /\ ~botStatus.isRunning)

\* C15: stop() calls raise no error and emit 'stopped' at most once in
\* all, exactly once when the calls on a running manager have returned.
C15_StopIdempotent ==
    /\ unhandled = 0
    /\ stoppedEvents <= 1
    /\ StopReturned => stoppedEvents = 1

\* the client has surfaced its terminal error and has not connected since
Exhausted(c) == c.errors > 0 /\ ~HasOpenSocket(c)

\* C16: a status written to bot:status lists no venue whose client has
\* surfaced its terminal error.
C16_StatusOmitsFailedVenue ==
    [][botStatus' # botStatus =>
          \A k \in 1..Len(botStatus'.connectedExchanges) :
              \A i \in 1..Len(clients') :
                  (/\ clients'[i].venue = botStatus'.connectedExchanges[k]
                   /\ i \in Registered(exchangeClients'))
                      => ~Exhausted(clients'[i])]_vars

\* ---------------------------------------------------------------------
\* ExchangeSymbolMapper: calls of its methods
\* ---------------------------------------------------------------------

MaxVenueIds == 2

MaxBases == 2

DOGE == <<"D", "O", "G", "E">>

\* the six venues and one the mapper has no format for
VenueIds == Venues \cup {"okx"}

\* symbols handed to toExchangeSymbol: canonical ones, and one that
\* carries a stablecoin quote
MapperSymbols == {BTCUSD, ETHUSD, BNBUSD, BTCUSDT}

\* symbols handed to fromExchangeSymbol: the examples of the venues
NativeSymbols ==
    UNION {{examples[v][k] : k \in 1..Len(examples[v])} : v \in Venues}

SeqsUpTo(S, n) == UNION {[1..m -> S] : m \in 0..n}

\* a caller calls one method at a time and, done with what it returned,
\* drops it; toExchangeSymbol and fromExchangeSymbol are called on any
\* input, or fromExchangeSymbol on what toExchangeSymbol just returned
ToExchangeSymbol ==
    /\ mapped = None
    /\ \E s \in MapperSymbols, v \in VenueIds :
          mapped' = [op |-> "toExchangeSymbol", normalizedSymbol |-> s,
                     exchangeId |-> v, result |-> toExchangeSymbol(s, v)]

FromExchangeSymbol ==
    /\ mapped = None
    /\ \E x \in NativeSymbols, v \in VenueIds :
          mapped' = [op |-> "fromExchangeSymbol", exchangeSymbol |-> x,
                     exchangeId |-> v, result |-> fromExchangeSymbol(x, v)]

FromExchangeSymbolBack ==
    /\ mapped # None
    /\ mapped.op = "toExchangeSymbol"
    /\ mapped.exchangeId \in Venues
    /\ mapped' = [op |-> "fromExchangeSymbol",
                  exchangeSymbol |-> mapped.result,
                  exchangeId |-> mapped.exchangeId,
                  result |-> fromExchangeSymbol(mapped.result,
                                                mapped.exchangeId)]

FindCommonSymbols ==
    /\ mapped = None
    /\ \E ids \in SeqsUpTo(VenueIds, MaxVenueIds),
          bases \in SeqsUpTo({BTC, <<"B", "N", "B">>, DOGE}, MaxBases) :
          mapped' = [op |-> "findCommonSymbols", exchangeIds |-> ids,
                     baseAssets |-> bases,
                     result |-> findCommonSymbols(ids, bases)]

MapperReturn ==
    /\ mapped # None
    /\ mapped' = None

MapperUnchanged ==
    UNCHANGED <<detVars, cliVars, mgrPc, currentConfig, exchangeClients,
                tasks, received, lastMessage, inVars, unhandled,
                botStatus, stopVars>>

NextMapper ==
    \/ ToExchangeSymbol /\ MapperUnchanged
    \/ FromExchangeSymbol /\ MapperUnchanged
    \/ FromExchangeSymbolBack /\ MapperUnchanged
    \/ FindCommonSymbols /\ MapperUnchanged
    \/ MapperReturn /\ MapperUnchanged

SpecMapper == InitMgr /\ [][NextMapper]_vars

\* the registry of the venue has a symbol for the base asset of s
InRegistry(s, v) ==
    /\ v \in DOMAIN examples
    /\ foundSymbol(v, baseCurrency(s)) # None

Called(call, op) == call # None /\ call.op = op

\* C21: for every venue v and every canonical symbol s the registry has
\* for v, fromExchangeSymbol(toExchangeSymbol(s, v), v) = s: a call of
\* fromExchangeSymbol with what the call of toExchangeSymbol before it
\* returned, for the same venue, returns the symbol that call was given.
C21_RoundTrip ==
    [][(/\ Called(mapped, "toExchangeSymbol")
        /\ Called(mapped', "fromExchangeSymbol")
        /\ mapped.normalizedSymbol \in {BTCUSD, ETHUSD, BNBUSD}
        /\ InRegistry(mapped.normalizedSymbol, mapped.exchangeId)
        /\ mapped'.exchangeId = mapped.exchangeId
        /\ mapped'.exchangeSymbol = mapped.result)
           => mapped'.result = mapped.normalizedSymbol]_vars

\* the Kraken symbol of BTCUSD has been taken back to BTCUSD
C21_Witness ==
    /\ Called(mapped, "fromExchangeSymbol")
    /\ mapped.exchangeId = "kraken"
    /\ mapped.exchangeSymbol = toExchangeSymbol(BTCUSD, "kraken")
    /\ mapped.exchangeSymbol = XBT_by_USD
    /\ mapped.result = BTCUSD

\* the venue has an example whose base asset, after the alias mapping, is
\* the one given
HasNative(v, base) ==
    /\ v \in DOMAIN examples
    /\ \E k \in 1..Len(examples[v]) :
          fromExchangeSymbol(examples[v][k], v) = toUpperCase(base) \o USD

\* C22: findCommonSymbols(venue_ids, base_whitelist) holds a canonical
\* symbol only if every venue of venue_ids has a native symbol for its
\* base asset; every entry maps each venue of venue_ids to that venue's
\* native symbol; a whitelisted base that any one venue lacks is left out.
C22_CommonSymbols ==
    Called(mapped, "findCommonSymbols") =>
        LET ids == {mapped.exchangeIds[e] : e \in 1..Len(mapped.exchangeIds)}
            bases == {mapped.baseAssets[b] :
                         b \in 1..Len(mapped.baseAssets)}
        IN  /\ \A s \in DOMAIN mapped.result :
                  /\ \E base \in bases : s = base \o USD
                  /\ \A v \in ids : HasNative(v, baseCurrency(s))
                  /\ DOMAIN mapped.result[s] = ids
                  /\ \A v \in ids :
                        /\ \E k \in 1..Len(examples[v]) :
                              examples[v][k] = mapped.result[s][v]
                        /\ fromExchangeSymbol(mapped.result[s][v], v) = s
            /\ \A base \in bases :
                  (\E v \in ids : ~HasNative(v, base))
                      => (base \o USD) \notin DOMAIN mapped.result

\* a call for two venues and two bases, one of which a venue lacks, has
\* returned the other base with the native symbols of both venues
C22_Witness ==
    /\ Called(mapped, "findCommonSymbols")
    /\ mapped.exchangeIds = <<"kraken", "coinbase">>
    /\ mapped.baseAssets = <<<<"B", "N", "B">>, BTC>>
    /\ DOMAIN mapped.result = {BTCUSD}
    /\ mapped.result[BTCUSD]["kraken"] = XBT_by_USD
    /\ mapped.result[BTCUSD]["coinbase"] = BTC_USD

\* ---------------------------------------------------------------------
\* OpportunityDetector: the scans of updateOrderBook
\* ---------------------------------------------------------------------

\* the handleOpportunity calls the step has made
Detected == {task \in pending' : task.id > oppSeq}

\* the books of the venue the scan held for the canonical symbol
LegBooks(m, exchange, symbol) ==
    {m[i] : i \in {i \in 1..Len(m) :
                      /\ m[i].exchange = exchange
                      /\ normalizeSymbol(m[i].symbol) = symbol}}

\* C24: evaluate(buy, sell) yields no opportunity whenever bids or asks is
\* empty in the buy-side or in the sell-side book: every opportunity a
\* scan hands to handleOpportunity comes from two books with a bid and an
\* ask each.
C24_BothSidesOfBothBooks ==
    [][\A task \in Detected :
          \A b \in LegBooks(orderBooks', task.opp.buyExchange,
                            task.opp.symbol)
                   \cup LegBooks(orderBooks', task.opp.sellExchange,
                                 task.opp.symbol) :
              b.bids # <<>> /\ b.asks # <<>>]_vars

\* C28: an intake at time now runs a scan if and only if
\* now - last_tick >= tick_interval_ms (1000) and then sets last_tick to
\* now; the slot of the book is updated in both cases; two scans are never
\* less than 1000 ms apart.  A scan shows in lastOpportunityCheck, which
\* only a scan assigns.
C28_ScanIffIntervalElapsed ==
    [][(orderBooks' # orderBooks
           \/ lastOpportunityCheck' # lastOpportunityCheck) =>
          /\ now - lastOpportunityCheck >= 1000
                 => lastOpportunityCheck' = now
          /\ lastOpportunityCheck' # lastOpportunityCheck
                 => /\ now - lastOpportunityCheck >= 1000
                    /\ lastOpportunityCheck' = now]_vars

\* the Map of books had the books arrived in another order
Rearranged(m, p) == [i \in 1..Len(m) |-> m[p[i]]]

\* C29: for identical sets of books a scan emits its opportunities in the
\* same order whatever the order the books arrived in (canonical symbols
\* ascending, then venue pairs by (min_id, max_id)): a scan of the books
\* held, had they arrived in any other order, makes the same
\* handleOpportunity calls in the same order.
C29_OrderOfArrivalIrrelevant ==
    \A p \in Permutations(1..Len(orderBooks)) :
        detectOpportunities(Rearranged(orderBooks, p), now)
            = detectOpportunities(orderBooks, now)

\* the step ends the ensureExchangesExist call of the task, which goes
\* back to create()
Retries(task) ==
    /\ task \in pending
    /\ task.pc = "ensure"
    /\ [task EXCEPT !.pc = "create"] \in pending'

\* C30: on a foreign-key failure the append upserts the venues the
\* opportunity refers to (its buy venue and its sell venue) and retries
\* the insert exactly once, returning without another retry if that
\* fails, so that the append always terminates: when the upsert is done
\* both venues of the opportunity are in the exchange table, and the
\* insert retried cannot fail on the foreign key and be retried again.
C30_RetryFindsBothVenues ==
    [][\A task \in pending :
          Retries(task) =>
              /\ task.opp.buyExchange \in exchangeTable'
              /\ task.opp.sellExchange \in exchangeTable']_vars

\* ---------------------------------------------------------------------
\* OpportunityDetector: books of the six venues under their own symbols
\* ---------------------------------------------------------------------

\* one book per venue, under the symbol the venue's client is subscribed
\* to for BTCUSD: asks of 10000 on binance and kraken, bids of 10200 on
\* coinbase and gemini
VenueBooks ==
    {DetBook(v, toExchangeSymbol(BTCUSD, v),
             <<Level(IF v \in {"coinbase", "gemini"} THEN 10200 ELSE 9900)>>,
             <<Level(IF v \in {"binance", "kraken"} THEN 10000 ELSE 10300)>>,
             0) : v \in Venues}

VenueIntake ==
    \E b \in VenueBooks :
        updateOrderBook([exchange |-> b.exchange, symbol |-> b.symbol,
                         bids |-> b.bids, asks |-> b.asks,
                         timestamp |-> now - b.age, lastUpdateId |-> 0])

NextVenueBooks ==
    \/ AdvanceTime /\ UNCHANGED <<cliVars, mgrVars>>
    \/ VenueIntake /\ UNCHANGED <<cliVars, mgrVars>>
    \/ SinkCreateError /\ UNCHANGED <<cliVars, mgrVars>>

SpecVenueBooks == InitDet /\ [][NextVenueBooks]_vars

\* the scan at time t evaluates the two books against each other, in both
\* directions: findArbitrageOpportunities has both in orderBooksByExchange
\* for one of the symbols of getAvailableSymbols
Evaluated(m, a, b, t) ==
    \E k \in 1..Len(getAvailableSymbols(m)) :
        LET group == ByExchange(m, getAvailableSymbols(m)[k], t, <<>>)
        IN  /\ \E i \in 1..Len(group) : group[i] = a
            /\ \E j \in 1..Len(group) : group[j] = b

MaxIntakeClients == 3

MaxIntakeMessages == 1

MaxBookEvents == 2

\* bot:config naming two venues
TwoVenueConfig == [StoredConfig EXCEPT !.exchanges = <<"binance", "coinbase">>]

\* the book a client of the venue emits at time t for the symbol it is
\* subscribed to (the handlers that build it are those of SpecBook)
IntakeBook(venue, t) ==
    [exchange |-> venue, symbol |-> toExchangeSymbol(BTCUSD, venue),
     bids |-> <<Level(IF venue = "coinbase" THEN 10200 ELSE 9900)>>,
     asks |-> <<Level(IF venue = "binance" THEN 10000 ELSE 10300)>>,
     timestamp |-> t, lastUpdateId |-> 0]

\* a client with an open socket emits 'orderbook': the listener of
\* setupExchangeEventHandlers calls handleOrderBookUpdate, which runs up
\* to its await of redisClient.setEx
OrderBookEvent ==
    /\ intakeSeq < MaxBookEvents
    /\ \E i \in 1..Len(clients) :
          /\ HasOpenSocket(clients[i])
          /\ lastBook' = IntakeBook(clients[i].venue, now)
          /\ intake' = intake \cup
                 {[id |-> intakeSeq + 1,
                   book |-> IntakeBook(clients[i].venue, now)]}
    /\ intakeSeq' = intakeSeq + 1
    /\ UNCHANGED <<detVars, clients, mgrPc, currentConfig, exchangeClients,
                   tasks, received, lastMessage, mapped, handed, unhandled,
                   botStatus, stopVars>>

\* the store client answers its commands in the order they were sent: the
\* setEx that is settled next is the one of the oldest waiting call
Oldest(call) == \A other \in intake : call.id <= other.id

\* setEx resolves: handleOrderBookUpdate feeds the detector and emits
\* 'orderbook_update'
CacheWriteOk ==
    /\ redisOpen
    /\ \E call \in intake :
          /\ Oldest(call)
          /\ updateOrderBook(call.book)
          /\ intake' = intake \ {call}
          /\ handed' = handed \cup {call.id}
    /\ UNCHANGED <<cliVars, mgrPc, currentConfig, exchangeClients, tasks,
                   received, lastMessage, mapped, intakeSeq, unhandled,
                   botStatus, stopVars>>

\* setEx rejects (the store answers with an error, or the client is
\* closed): the catch of handleOrderBookUpdate logs the error
CacheWriteFails ==
    /\ \E call \in intake : Oldest(call) /\ intake' = intake \ {call}
    /\ UNCHANGED <<detVars, cliVars, mgrPc, currentConfig, exchangeClients,
                   tasks, received, lastMessage, mapped, intakeSeq, handed,
                   unhandled, botStatus, stopVars>>

IntakeLoad == loadConfiguration({TwoVenueConfig})

IntakeConnect == startConnections(MaxIntakeClients)

IntakeConfigMessage ==
    onConfigUpdate({StoredConfig}, MaxIntakeMessages, MaxIntakeClients)

\* the manager started on two venues and reconfigured to one, with the
\* books its clients emit and the database of the detector; the sockets
\* that disconnect() closes report no 'close' here (SpecManager has those
\* events and the reconnects they lead to)
NextIntake ==
    \/ StartSubscribe
    \/ IntakeLoad
    \/ IntakeConnect
    \/ TaskDone
    \/ IntakeConfigMessage
    \/ ManagerConnectReturns
    \/ ManagerSocketOpen
    \/ AdvanceTime /\ UNCHANGED <<cliVars, mgrVars>>
    \/ OrderBookEvent
    \/ CacheWriteOk
    \/ CacheWriteFails
    \/ SinkCreateForeignKey /\ UNCHANGED <<cliVars, mgrVars>>
    \/ EnsureOk /\ UNCHANGED <<cliVars, mgrVars>>
    \/ SinkCreateOk /\ UNCHANGED <<cliVars, mgrVars>>
    \/ CleanupCount /\ UNCHANGED <<cliVars, mgrVars>>

SpecIntake == InitMgr /\ [][NextIntake]_vars

\* the configuration enables exactly one venue
OneVenue(cfg) ==
    /\ "exchanges" \in DOMAIN cfg
    /\ Cardinality({cfg.exchanges[k] : k \in 1..Len(cfg.exchanges)}) = 1

\* C23: while the configuration in effect enables exactly one venue no
\* opportunity is detected and no opportunity_detected event is emitted,
\* whatever config updates and book events came before (a
\* reconfiguration from several venues down to one included).
C23_SingleVenueNoOpportunity ==
    [][(received > 0 /\ OneVenue(currentConfig) /\ OneVenue(currentConfig'))
          => (oppSeq' = oppSeq /\ emitted' = emitted)]_vars

\* C26: every 'orderbook' event the manager receives is handed to the
\* detector (updateOrderBook) and re-emitted as orderbook_update, also
\* when the cache write for the book fails: a handleOrderBookUpdate call
\* ends only with the book in the detector's Map.
C26_NoBookDropped ==
    [][\A call \in intake :
          call \notin intake' =>
              /\ call.id \in handed'
              /\ \E k \in 1..Len(orderBooks') :
                    orderBooks'[k] = call.book]_vars

\* ---------------------------------------------------------------------
\* DynamicMarketDataManager: what a configuration update does to clients
\* ---------------------------------------------------------------------

SetOf(seq) == {seq[k] : k \in 1..Len(seq)}

\* the step is the subscription callback for a payload that parses and,
\* like the configuration it replaces, has its venues and its symbols
WellFormedUpdate ==
    /\ received' = received + 1
    /\ lastMessage' # InvalidJson
    /\ ~Throws(currentConfig, lastMessage')

SameSets(oldConfig, newConfig) ==
    /\ SetOf(oldConfig.exchanges) = SetOf(newConfig.exchanges)
    /\ SetOf(oldConfig.symbols) = SetOf(newConfig.symbols)

\* the clients the step has created
Created == (Len(clients) + 1)..Len(clients')

C24_NoBestAskOrNoBestBid ==
    [][Scanned =>
          \A i, j \in 1..Len(orderBooks') :
              LET buy == orderBooks'[i]
                  sell == orderBooks'[j]
                  opp == calculateOpportunity(buy, sell,
                             normalizeSymbol(buy.symbol), now)
              IN  /\ (buy.asks = <<>> \/ sell.bids = <<>>) =>
                         /\ opp = None
                         /\ \A task \in Detected :
                               ~(/\ task.opp.buyExchange = buy.exchange
                                 /\ task.opp.sellExchange = sell.exchange)
                  /\ (buy.asks # <<>> /\ sell.bids # <<>>) =>
                         opp = calculateOpportunity(
                                   [buy EXCEPT !.bids = <<>>],
                                   [sell EXCEPT !.asks = <<>>],
                                   normalizeSymbol(buy.symbol), now)]_vars

\* a scan has found binance -> coinbase in a Binance book without bids and
\* a Coinbase book without asks, which yields nothing the other way round
C24_Witness ==
    /\ \E i, j \in 1..Len(orderBooks) :
          /\ orderBooks[i].exchange = "binance"
          /\ orderBooks[i].bids = <<>>
          /\ orderBooks[j].exchange = "coinbase"
          /\ orderBooks[j].asks = <<>>
          /\ calculateOpportunity(orderBooks[j], orderBooks[i], BTCUSD, now)
                 = None
    /\ \E task \in pending :
          /\ task.opp.buyExchange = "binance"
          /\ task.opp.sellExchange = "coinbase"
          /\ task.opp.timestamp = now

\* ---------------------------------------------------------------------
\* Venue clients: what the handlers do with the messages they are given
\* ---------------------------------------------------------------------

\* C31: a Binance depth update whose final id u is above the stored book's
\* lastUpdateId is applied: its levels are merged, the book is stored and
\* emitted with lastUpdateId = u, also when the first id U of the update
\* is at or below the stored lastUpdateId.
C31_NewerUpdateApplied ==
    \A i \in 1..Len(clients) :
        clients[i].venue = "binance" =>
            \A update \in DepthUpdates :
                LET existingOrderBook == BookGet(clients[i], update.symbol)
                    updated == handleDepthUpdate(clients[i], update, now)
                IN  (/\ existingOrderBook # None
                     /\ update.u > existingOrderBook.lastUpdateId)
                        => /\ updated # None
                           /\ updated.lastUpdateId = update.u

\* nothing of the client is left that holds a book, reconnects or emits:
\* no book in the map, no timer armed, no connect() running and no socket
\* that is open or opening
Quiet(c) ==
    /\ c.orderBooks = <<>>
    /\ c.timers = <<>>
    /\ c.connecting = 0
    /\ \A k \in 1..Len(c.sockets) : c.sockets[k] \notin {"connecting", "open"}

\* C32: once disconnect() has been called on a venue client, the client
\* holds no books, has no reconnect timer pending, opens no new WebSocket
\* and emits no further connected or orderbook events, for every venue,
\* also when connect() is still priming and for each of Gemini's
\* per-symbol sockets.  Checked on the state disconnect() leaves.
C32_QuietAfterDisconnect ==
    [][\A i \in 1..Len(clients) :
          (/\ Len(clients') = Len(clients)
           /\ clients'[i] # clients[i]
           /\ clients'[i] = disconnect(clients[i]))
              => Quiet(clients'[i])]_vars

\* one live client of any of the six venues whose REST snapshot of the
\* symbol arrived or failed (initializeOrderBooks stores no book then)
InitUnprimed ==
    /\ InitDetector
    /\ \E venue \in Venues, primed \in BOOLEAN :
           clients = <<[LiveClient(venue, StartTime) EXCEPT
                           !.orderBooks = IF primed THEN @ ELSE <<>>]>>
    /\ lastBook = None
    /\ InitManager

SpecUnprimed == InitUnprimed /\ [][NextBook]_vars

\* C33: for every venue and every kind of message (snapshot, incremental
\* update, ticker), a message for a symbol that has no book in the
\* client's map leaves the map as it was and emits no orderbook event.
C33_UnknownSymbolDiscarded ==
    [][\A i \in 1..Len(clients) :
          BookGet(clients[i], BTCUSDT) = None
              => /\ clients'[i].orderBooks = clients[i].orderBooks
                 /\ lastBook' = lastBook]_vars

\* ---------------------------------------------------------------------
\* Venue clients: the 'message' listener and the frames it is given
\* ---------------------------------------------------------------------

\* frames that are no well-formed message: text that JSON.parse rejects,
\* a message of a type the client does not know, and messages of a known
\* type without their fields, which are named in missing and read as
\* undefined
NotJson == [type |-> "unparseable"]

\* undefined where a price string is expected: the spelling of no number
\* (parseFloat gives NaN, which no step taken here computes with)
Undefined == <<-1, -1>>

Missing(frame, field) ==
    "missing" \in DOMAIN frame /\ field \in frame.missing

UnknownType == [type |-> "unknown", symbol |-> BTCUSDT]

TickerWithoutPrices ==
    [type |-> "ticker", symbol |-> BTCUSDT, best_bid |-> Undefined,
     best_ask |-> Undefined, missing |-> {"best_bid", "best_ask"}]

WithoutLevels(type) ==
    [type |-> type, symbol |-> BTCUSDT, bids |-> <<>>, asks |-> <<>>,
     missing |-> {"bids", "asks"}]

DeltaWithoutAsks ==
    [type |-> "delta", symbol |-> BTCUSDT,
     bids |-> <<Entry(<<99, 0>>, <<0, 0>>)>>, asks |-> <<>>,
     missing |-> {"asks"}]

MalformedFrames(venue) ==
    IF venue = "coinbase"
    THEN <<NotJson, UnknownType, TickerWithoutPrices,
           WithoutLevels("snapshot"), WithoutLevels("delta")>>
    ELSE <<NotJson, UnknownType, WithoutLevels("snapshot"),
           WithoutLevels("delta"), DeltaWithoutAsks>>

\* the well-formed messages of the two venues; the Coinbase client is
\* given snapshots and tickers, the Bybit client snapshots and deltas
WellFormedFrames(venue) ==
    IF venue = "coinbase" THEN SnapshotMessages \cup TickerMessages
    ELSE SnapshotMessages \cup DeltaMessages

\* the 'message' listener of the Coinbase client with handleMessage: what
\* JSON.parse or a handler throws is caught by the listener; the value is
\* the book stored and emitted, None when there is none
coinbaseOnMessage(c, frame, t) ==
    IF frame.type = "unparseable" THEN None
    ELSE IF frame.type = "snapshot"
         THEN IF Missing(frame, "bids") \/ Missing(frame, "asks") THEN None
              ELSE handleSnapshot(c, frame, t)
    ELSE IF frame.type = "delta"
         THEN IF BookGet(c, frame.symbol) = None THEN None
              ELSE IF Missing(frame, "bids") \/ Missing(frame, "asks") THEN None
              ELSE deltaOnly(c, frame, t)
    ELSE IF frame.type = "ticker" THEN handleTicker(c, frame, t)
    ELSE None

\* the 'message' listener of the Bybit client with handleMessage and
\* handleOrderBookUpdate
bybitOnMessage(c, frame, t) ==
    IF frame.type = "unparseable" THEN None
    ELSE IF frame.type \notin {"snapshot", "delta"} THEN None
    ELSE IF BookGet(c, frame.symbol) = None THEN None
    ELSE IF Missing(frame, "bids") \/ Missing(frame, "asks") THEN None
    ELSE snapshotOrDelta(c, frame, t)

OnMessage(c, frame, t) ==
    IF c.venue = "coinbase" THEN coinbaseOnMessage(c, frame, t)
    ELSE bybitOnMessage(c, frame, t)

CoinbaseOnMessage ==
    \E i \in 1..Len(clients) :
        /\ Receives(i, "coinbase")
        /\ \/ \E frame \in WellFormedFrames("coinbase") :
                 StoreAndEmit(i, coinbaseOnMessage(clients[i], frame, now))
           \/ \E k \in 1..Len(MalformedFrames("coinbase")) :
                 StoreAndEmit(i, coinbaseOnMessage(
                                     clients[i],
                                     MalformedFrames("coinbase")[k], now))

BybitOnMessage ==
    \E i \in 1..Len(clients) :
        /\ Receives(i, "bybit")
        /\ \/ \E frame \in WellFormedFrames("bybit") :
                 StoreAndEmit(i, bybitOnMessage(clients[i], frame, now))
           \/ \E k \in 1..Len(MalformedFrames("bybit")) :
                 StoreAndEmit(i, bybitOnMessage(
                                     clients[i],
                                     MalformedFrames("bybit")[k], now))

\* one live client of Coinbase or Bybit, primed
InitFrames ==
    /\ InitDetector
    /\ \E venue \in {"coinbase", "bybit"} :
           clients = <<LiveClient(venue, StartTime)>>
    /\ lastBook = None
    /\ InitManager

NextFrames ==
    \/ CoinbaseOnMessage /\ UNCHANGED <<detVars, mgrVars>>
    \/ BybitOnMessage /\ UNCHANGED <<detVars, mgrVars>>

SpecFrames == InitFrames /\ [][NextFrames]_vars

\* C34: a malformed or unexpected frame (text that is not JSON, a known
\* message type without its fields, an unknown message type) is
\* discarded: the listener stores no book and emits no orderbook event
\* for it, whatever books the client holds, so the books stay as they
\* were for the frames that follow.
C34_MalformedFrameDiscarded ==
    \A i \in 1..Len(clients) :
        \A k \in 1..Len(MalformedFrames(clients[i].venue)) :
            OnMessage(clients[i], MalformedFrames(clients[i].venue)[k], now)
                = None

\* ---------------------------------------------------------------------
\* Venue clients: REST snapshots that fail
\* ---------------------------------------------------------------------

\* C35: when connect() runs and the REST snapshot of some of the client's
\* symbols fails, the client holds a book for exactly the symbols whose
\* snapshot arrived (a symbol whose snapshot failed has no book until a
\* later cycle primes it) and connect() still creates its WebSocket.
C35_UnprimedSymbolAbsent ==
    \A i \in 1..Len(clients) :
        clients[i].connecting > 0 =>
            \A primed \in SUBSET SymbolsOf(clients[i]) :
                LET c == connect(clients[i], primed, now)
                IN  /\ \A symbol \in SymbolsOf(clients[i]) :
                           BookGet(c, BookKey(c.venue, symbol)) # None
                               <=> symbol \in primed
                    /\ Len(c.sockets) > Len(clients[i].sockets)

\* ---------------------------------------------------------------------
\* DynamicMarketDataManager: the clients it holds and the ones it made
\* ---------------------------------------------------------------------

\* C36: the manager has at most one client per venue that was created and
\* not disconnected, and that client is the one in exchangeClients, also
\* when a configuration update is handled while start() is still loading
\* or connecting.  exchangeClients holds one client per venue and every
\* client is put there when it is created, so this comes to: a client
\* leaves exchangeClients only in a step that calls disconnect() on it.
C36_DroppedClientsDisconnected ==
    [][\A i \in 1..Len(clients) :
          (i \in Registered(exchangeClients)
              /\ i \notin Registered(exchangeClients'))
              => clients'[i] = disconnect(clients[i])]_vars

\* ---------------------------------------------------------------------
\* DynamicMarketDataManager: the order in which books reach the detector
\* ---------------------------------------------------------------------

\* the detector's slot for the venue and symbol of the book holds the book
InDetector(book) == \E k \in 1..Len(orderBooks) : orderBooks[k] = book

\* C37: the detector receives the books of a (venue, symbol) in the order
\* the client emitted them: once no handleOrderBookUpdate call is waiting
\* on its cache write any more, the detector's slot for the venue and
\* symbol of the book emitted last holds that book.
C37_DetectorHoldsLastEmitted ==
    (intake = {} /\ lastBook # None) => InDetector(lastBook)

\* ---------------------------------------------------------------------
\* Venue clients: the key an update is looked up under
\* ---------------------------------------------------------------------

\* String.prototype.replace(from, to) with a string pattern: the first
\* occurrence only
RECURSIVE replace(_, _, _)
replace(s, from, to) ==
    IF Len(s) < Len(from) THEN s
    ELSE IF SubSeq(s, 1, Len(from)) = from
         THEN to \o SubSeq(s, Len(from) + 1, Len(s))
    ELSE <<Head(s)>> \o replace(Tail(s), from, to)

\* the key under which the update handler of a venue looks up the book,
\* for the symbol the update carries (the symbol the client subscribed
\* with): the Kraken client renames XBT to BTC, the Gemini client puts the
\* symbol of its socket in upper case, the others take it as it comes
updateKey(venue, symbol) ==
    IF venue = "kraken" THEN replace(symbol, XBT, BTC)
    ELSE IF venue = "gemini" THEN toUpperCase(symbol)
    ELSE symbol

\* C38: for every venue, an incremental update for a symbol the manager
\* subscribed and the client primed finds that symbol's book: the symbol
\* the update carries resolves to the key the book was primed under
\* (Kraken's XBT/USD and Gemini's lowercase symbols included).
C38_UpdateFindsPrimedBook ==
    \A i \in 1..Len(clients) :
        \A k \in 1..Len(clients[i].symbols) :
            LET c == clients[i]
                symbol == c.symbols[k]
            IN  BookGet(c, BookKey(c.venue, symbol)) # None
                    => BookGet(c, updateKey(c.venue, symbol)) # None

\* ---------------------------------------------------------------------
\* DynamicMarketDataManager: updates that switch the bot off and on
\* ---------------------------------------------------------------------

\* the stored configuration, switched off
SwitchedOff == [StoredConfig EXCEPT !.isActive = FALSE]

ToggleLoad == loadConfiguration({StoredConfig})

ToggleConnect == startConnections(MaxClients)

ToggleMessage ==
    onConfigUpdate({SwitchedOff, StoredConfig}, MaxMessages, MaxClients)

\* the manager started on the stored configuration, with updates that
\* change isActive and nothing else; no socket is ever closed here, so
\* there are no 'close' events and no reconnects
NextToggle ==
    \/ StartSubscribe
    \/ ToggleLoad
    \/ ToggleConnect
    \/ TaskDone
    \/ ToggleMessage
    \/ ManagerConnectReturns
    \/ ManagerSocketOpen

SpecToggle == InitMgr /\ [][NextToggle]_vars

\* C39: while the configuration in effect has isActive = false no venue
\* client is live: an update to a configuration that is switched off
\* calls disconnect() on every client and leaves the manager without
\* clients, and an update that switches the configuration back on leaves
\* the manager with a new client for each of its venues.  Checked on the
\* updates a running manager receives.
C39_SwitchedOffMeansNoClients ==
    [][(WellFormedUpdate /\ mgrPc = "running") =>
          /\ ~lastMessage'.isActive =>
                /\ \A i \in Registered(exchangeClients) :
                      clients'[i] = disconnect(clients[i])
                /\ exchangeClients' = <<>>
          /\ (lastMessage'.isActive /\ ~currentConfig.isActive) =>
                \A v \in SetOf(lastMessage'.exchanges) :
                    \E k \in 1..Len(exchangeClients') :
                        /\ exchangeClients'[k].venue = v
                        /\ exchangeClients'[k].client \in Created]_vars

\* ---------------------------------------------------------------------
\* OpportunityDetector: the opportunities of one scan
\* ---------------------------------------------------------------------

\* books of three venues for one symbol; the Coinbase client holds it
\* under two native symbols that normalizeSymbol maps to the same symbol
ScanBooks ==
    {DetBook("binance", BTCUSDT, <<Level(9900)>>, <<Level(10000)>>, 0),
     DetBook("bybit", BTCUSDT, <<Level(10100)>>, <<Level(10150)>>, 0),
     DetBook("coinbase", BTC_USD, <<Level(10200)>>, <<Level(10300)>>, 0),
     DetBook("coinbase", BTC_USDT, <<Level(10250)>>, <<Level(10350)>>, 0)}

ScanIntake ==
    \E b \in ScanBooks :
        updateOrderBook([exchange |-> b.exchange, symbol |-> b.symbol,
                         bids |-> b.bids, asks |-> b.asks,
                         timestamp |-> now - b.age, lastUpdateId |-> 0])

NextScan ==
    \/ AdvanceTime /\ UNCHANGED <<cliVars, mgrVars>>
    \/ ScanIntake /\ UNCHANGED <<cliVars, mgrVars>>

SpecScan == InitDet /\ [][NextScan]_vars

\* no opportunity of the list buys and sells on one venue, and no two
\* entries of the list have the same buy venue, sell venue and symbol
OncePerPair(opps) ==
    /\ \A k \in 1..Len(opps) : opps[k].buyExchange # opps[k].sellExchange
    /\ \A j, k \in 1..Len(opps) :
          (/\ opps[j].buyExchange = opps[k].buyExchange
           /\ opps[j].sellExchange = opps[k].sellExchange
           /\ opps[j].symbol = opps[k].symbol) => j = k

\* C40: every opportunity a scan produces has a buy venue different from
\* its sell venue, and a scan produces at most one opportunity per
\* ordered pair of venues and symbol.  Checked on the scan of every map
\* of books the detector comes to hold: on what findArbitrageOpportunities
\* returns for each symbol, and on what detectOpportunities hands on.
C40_DistinctVenuesOncePerPair ==
    LET symbols == getAvailableSymbols(orderBooks)
    IN  /\ \A j, k \in 1..Len(symbols) : symbols[j] = symbols[k] => j = k
        /\ \A k \in 1..Len(symbols) :
               /\ OncePerPair(findArbitrageOpportunities(orderBooks,
                                                         symbols[k], now))
               /\ \A i \in 1..Len(findArbitrageOpportunities(
                                     orderBooks, symbols[k], now)) :
                      findArbitrageOpportunities(orderBooks, symbols[k],
                                                 now)[i].symbol = symbols[k]
        /\ OncePerPair(detectOpportunities(orderBooks, now))

\* a scan has handed an opportunity on, and the books held now, two of
\* them Coinbase books of the same symbol, yield opportunities for several
\* pairs of venues
C40_Witness ==
    /\ pending # {}
    /\ \E i, j \in 1..Len(orderBooks) :
          /\ i # j
          /\ orderBooks[i].exchange = "coinbase"
          /\ orderBooks[j].exchange = "coinbase"
          /\ isOrderBookFresh(orderBooks[i], now)
          /\ isOrderBookFresh(orderBooks[j], now)
    /\ Len(detectOpportunities(orderBooks, now)) >= 3

====
